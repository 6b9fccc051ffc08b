--------------------------- MODULE ExecutiveProofs ---------------------------
(***************************************************************************)
(* Proofs about the executive, for every stack with a mission tier, every  *)
(* schedule of blackouts, every fault of a policy and every number of      *)
(* episodes.                                                               *)
(*                                                                         *)
(* The plan in force is judged between ticks, but what makes it right      *)
(* happens in the middle of one: the invariant says of the mission's       *)
(* cache what holds before its turn and what holds after it.               *)
(***************************************************************************)
EXTENDS Executive, Extrema

-----------------------------------------------------------------------------
(* The invariant. *)

Cached == tier[1].batch # None
Turned == at # 1

(* Between ticks the strategy remembers the comms of the tick, and with an  *)
(* episode behind it every tier has decided.                                *)
Remembers ==
  /\ at = 0 => wasDark = dark
  /\ at = 0 /\ wasDark => Cached
  /\ at # 0 /\ wasDark => Cached
  /\ dark # wasDark => sinceSwitch = 0
  /\ dark /\ ~Cached => sinceSwitch = 0

(* A plan that was decided, and not restamped, is as old as its stamp. *)
Stamped == Cached /\ ~reused => tier[1].batch.age = tier[1].since

NotExpired == Cached /\ Turned /\ Expires /\ ~dark /\ ~reused => tier[1].since < Stack[1].horizon

Reconciled ==
  Cached /\ ~dark /\ ~missed /\ sinceSwitch < epoch /\ (Turned \/ ~wasDark)
    => tier[1].batch.age <= sinceSwitch

Holds ==
  Cached /\ dark /\ Triggers(1) # {} /\ Triggers(1) \subseteq {"plan_expired", "comms_lost"}
    => tier[1].batch.age >= sinceSwitch

InEpisode == \A i \in Tiers : tier[i].batch # None => tier[i].batch.age <= epoch

Resolved == at = 0 /\ dark => emitted = Coordinated

Inv ==
  /\ TypeOK /\ Remembers
  /\ Stamped /\ NotExpired /\ Reconciled /\ Holds
  /\ InEpisode /\ Resolved

-----------------------------------------------------------------------------
(* Facts about the stack and about ages. *)

LEMMA StackFacts ==
  /\ Tiers = 1..Len(Stack) /\ Len(Stack) \in Nat /\ 1 \in Tiers
  /\ Cap \in Nat
  /\ \A i \in Tiers : Stack[i].horizon \in 0..Cap - 1 /\ Stack[i].every \in 0..Cap - 1
                      /\ Stack[i].fallback \in BOOLEAN /\ Stack[i].triggers \in Seq(STRING)
  /\ Stack[1].role = "mission"
  /\ Expires => Stack[1].horizon > 0
<1> DEFINE Tier == [role : STRING, horizon : 0..Cap - 1, triggers : Seq(STRING),
                    every : 0..Cap - 1, fallback : BOOLEAN]
<1>0. Stack \in Seq(Tier) /\ Len(Stack) > 0 /\ Cap \in Nat
  BY StackAssumption
<1>1. Tiers = 1..Len(Stack) /\ Len(Stack) \in Nat /\ 1 \in Tiers /\ \A i \in Tiers : Stack[i] \in Tier
  <2> HIDE DEF Tier
  <2>1. QED
    BY <1>0 DEF Tiers
<1>2. \A i \in Tiers : Stack[i].horizon \in 0..Cap - 1 /\ Stack[i].every \in 0..Cap - 1
                      /\ Stack[i].fallback \in BOOLEAN /\ Stack[i].triggers \in Seq(STRING)
  BY <1>1
<1>3. Stack[1].role = "mission"
  BY <1>1, StackAssumption
<1>4. Expires => Stack[1].horizon > 0
  BY <1>1, StackAssumption DEF Expires, Triggers
<1>5. QED
  BY <1>0, <1>1, <1>2, <1>3, <1>4

LEMMA OlderFacts ==
  ASSUME NEW n \in 0..Cap
  PROVE  /\ Older(n) \in 0..Cap /\ Older(n) >= n
         /\ \A m \in 0..Cap : m <= n => Older(m) <= Older(n)
         /\ \A m \in 0..Cap : Older(m) < Older(n) => m < n
BY StackFacts DEF Older

LEMMA TierFacts ==
  ASSUME TypeOK, NEW i \in Tiers
  PROVE  /\ tier[i] = [batch |-> tier[i].batch, since |-> tier[i].since, fell |-> tier[i].fell]
         /\ tier[i].since \in 0..Cap /\ tier[i].fell \in BOOLEAN
         /\ tier[i].batch \in Batches \cup {None}
         /\ tier[i].batch # None => /\ tier[i].batch.age \in 0..Cap
                                    /\ tier[i].batch.claims \in SUBSET (Agents \X Tasks)
BY DEF TypeOK, Batches

LEMMA Decided ==
  ASSUME NEW b \in Batches
  PROVE  b # None
BY StackAssumption

(* The first trigger that fires, or none does. *)
LEMMA DueFires ==
  ASSUME NEW i \in Tiers, Triggers(i) # {}
  PROVE  \/ Due(i) = "none" /\ \A t \in Triggers(i) : ~Fires(i, t)
         \/ Due(i) \in Triggers(i) /\ Fires(i, Due(i))
<1> DEFINE ts == Stack[i].triggers
           firing == {k \in DOMAIN ts : Fires(i, ts[k])}
<1>1. ts \in Seq(STRING) /\ ts # <<>>
  BY StackFacts DEF Triggers
<1>2. Due(i) = IF firing = {} THEN "none" ELSE ts[CHOOSE k \in firing : \A l \in firing : k <= l]
  BY <1>1 DEF Due
<1>3. CASE firing = {}
  BY <1>2, <1>3 DEF Triggers
<1>4. CASE firing # {}
  <2>1. firing \in SUBSET Int /\ IsFiniteSet(firing)
    <3>1. DOMAIN ts = 1..Len(ts) /\ Len(ts) \in Nat
      BY <1>1
    <3>2. IsFiniteSet(1..Len(ts))
      BY <3>1, FS_Interval
    <3>3. QED
      BY <3>1, <3>2, FS_Subset
  <2>2. \E k \in firing : \A l \in firing : k <= l
    BY <2>1, <1>4, HasLeast
  <2>3. PICK k \in firing : Due(i) = ts[k]
    BY <2>2, <1>2, <1>4
  <2>4. QED
    BY <2>3 DEF Triggers
<1>5. QED
  BY <1>3, <1>4

-----------------------------------------------------------------------------
(* The actions. *)

LEMMA InitInv == Init => Inv
<1> SUFFICES ASSUME Init PROVE Inv
  OBVIOUS
<1> USE StackFacts DEF Init, Fresh
<1>1. TypeOK
  <2>1. tier \in [Tiers -> [batch : Batches \cup {None}, since : 0..Cap, fell : BOOLEAN]]
    OBVIOUS
  <2>2. at \in 0..Len(Stack) + 1 /\ \A i \in Tiers : ~(i < at)
    OBVIOUS
  <2>3. QED
    BY <2>1, <2>2 DEF TypeOK
<1>2. ~Cached
  BY DEF Cached
<1>3. InEpisode
  BY DEF InEpisode
<1>4. QED
  BY <1>1, <1>2, <1>3 DEF Inv, Remembers, Stamped, NotExpired, Reconciled, Holds, Resolved

TierStates == [batch : Batches \cup {None}, since : 0..Cap, fell : BOOLEAN]

LEMMA AgedTier ==
  ASSUME NEW t \in TierStates
  PROVE  /\ Aged(t) \in TierStates
         /\ Aged(t).since = Older(t.since)
         /\ (Aged(t).batch # None) <=> (t.batch # None)
         /\ t.batch # None => Aged(t).batch.age = Older(t.batch.age)
<1> DEFINE b == IF t.batch = None THEN None ELSE [t.batch EXCEPT !.age = Older(@)]
<1>1. t.since \in 0..Cap /\ Older(t.since) \in 0..Cap /\ t.fell \in BOOLEAN
      /\ t.batch \in Batches \cup {None}
  BY OlderFacts DEF TierStates
<1>2. Aged(t) = [batch |-> b, since |-> Older(t.since), fell |-> t.fell]
  BY DEF Aged
<1>3. t.batch # None => b \in Batches /\ b.age = Older(t.batch.age)
  BY <1>1, OlderFacts DEF Batches
<1>4. b \in Batches \cup {None} /\ (b # None <=> t.batch # None)
  BY <1>3, Decided
<1>5. Aged(t) \in TierStates /\ Aged(t).since = Older(t.since) /\ Aged(t).batch = b
  <2> HIDE DEF b
  <2>1. QED
    BY <1>1, <1>2, <1>4 DEF TierStates
<1>6. QED
  BY <1>3, <1>4, <1>5

LEMMA StartTickInv == Inv /\ StartTick => Inv'
<1> SUFFICES ASSUME Inv, StartTick PROVE Inv'
  OBVIOUS
<1> USE DEF Inv
<1>1. PICK rewound \in BOOLEAN, contact \in SUBSET Agents :
        LET before == ~rewound /\ wasDark
            now == Denied(contact)
        IN  /\ tier' = Rebuilt(rewound)
            /\ dark' = now
            /\ wasDark' = before
            /\ sinceSwitch' = IF rewound \/ now # before THEN 0 ELSE Older(sinceSwitch)
            /\ epoch' = IF rewound THEN 0 ELSE Older(epoch)
            /\ reused' = (~rewound /\ reused)
            /\ missed' = (~rewound /\ missed)
  BY DEF StartTick
<1>2. at = 0 /\ at' = 1 /\ upstream' = {} /\ emitted' = emitted
  BY DEF StartTick
<1>3. /\ {dark, wasDark, reused, missed} \subseteq BOOLEAN
      /\ sinceSwitch \in 0..Cap /\ epoch \in 0..Cap
      /\ Older(sinceSwitch) \in 0..Cap /\ Older(epoch) \in 0..Cap
  BY OlderFacts DEF TypeOK
<1>4. /\ dark' \in BOOLEAN /\ wasDark' \in BOOLEAN /\ reused' \in BOOLEAN /\ missed' \in BOOLEAN
      /\ sinceSwitch' \in 0..Cap /\ epoch' \in 0..Cap
  BY <1>1, <1>3, StackFacts DEF Denied
<1>5. ASSUME rewound PROVE Inv'
  <2>1. tier' = Fresh /\ wasDark' = FALSE /\ sinceSwitch' = 0
    BY <1>1, <1>5 DEF Rebuilt
  <2>2. TypeOK'
    BY <1>2, <1>4, <2>1, StackFacts DEF TypeOK, Fresh
  <2>3. \A i \in Tiers : tier'[i].batch = None
    BY <2>1 DEF Fresh
  <2>4. ~Cached'
    BY <2>3, StackFacts DEF Cached
  <2>5. QED
    BY <1>2, <2>1, <2>2, <2>3, <2>4
    DEF Remembers, Stamped, NotExpired, Reconciled, Holds, InEpisode, Resolved
<1>6. ASSUME ~rewound PROVE Inv'
  <2>1. /\ tier' = [i \in Tiers |-> Aged(tier[i])]
        /\ wasDark' = wasDark /\ wasDark = dark
        /\ sinceSwitch' = IF dark' # wasDark THEN 0 ELSE Older(sinceSwitch)
        /\ epoch' = Older(epoch) /\ reused' = reused /\ missed' = missed
    BY <1>1, <1>2, <1>3, <1>6 DEF Rebuilt, Remembers
  <2>2. \A i \in Tiers :
          /\ tier'[i] \in TierStates
          /\ tier'[i].since = Older(tier[i].since)
          /\ (tier'[i].batch # None) <=> (tier[i].batch # None)
          /\ tier[i].batch # None => tier'[i].batch.age = Older(tier[i].batch.age)
    <3>1. \A i \in Tiers : tier[i] \in TierStates /\ tier'[i] = Aged(tier[i])
      BY <2>1 DEF TypeOK, TierStates
    <3>2. QED
      BY <3>1, AgedTier
  <2>3. TypeOK'
    BY <1>2, <1>4, <2>1, <2>2, StackFacts DEF TypeOK, TierStates
  <2>4. Cached' <=> Cached
    BY <2>2, StackFacts DEF Cached
  <2>5. /\ Cached => tier'[1].batch.age = Older(tier[1].batch.age) /\ tier[1].batch.age \in 0..Cap
        /\ tier'[1].since = Older(tier[1].since)
    BY <2>2, StackFacts, TierFacts DEF Cached
  <2>6. Remembers'
    BY <1>2, <2>1, <2>4 DEF Remembers
  <2>7. Stamped'
    BY <2>1, <2>4, <2>5 DEF Stamped
  <2>8. NotExpired' /\ Resolved'
    BY <1>2 DEF NotExpired, Resolved, Turned
  <2>9. Reconciled'
    <3> SUFFICES ASSUME Cached', ~dark', ~missed', sinceSwitch' < epoch', ~wasDark'
                 PROVE  tier'[1].batch.age <= sinceSwitch'
      BY <1>2 DEF Reconciled, Turned
    <3>1. ~dark /\ sinceSwitch' = Older(sinceSwitch) /\ sinceSwitch < epoch
      BY <2>1, <1>3, <1>4, OlderFacts
    <3>2. tier[1].batch.age <= sinceSwitch
      BY <2>1, <2>4, <3>1 DEF Reconciled
    <3>3. QED
      BY <2>4, <2>5, <3>1, <3>2, <1>3, OlderFacts
  <2>10. Holds'
    <3> SUFFICES ASSUME Cached', dark', Triggers(1) # {}, Triggers(1) \subseteq {"plan_expired", "comms_lost"}
                 PROVE  tier'[1].batch.age >= sinceSwitch'
      BY DEF Holds, Triggers
    <3>1. CASE ~wasDark
      <4>1. sinceSwitch' = 0 /\ tier'[1].batch.age \in 0..Cap
        BY <2>1, <2>4, <2>5, <3>1, OlderFacts
      <4>2. QED
        BY <4>1
    <3>2. CASE wasDark
      <4>1. sinceSwitch' = Older(sinceSwitch) /\ tier[1].batch.age >= sinceSwitch
        BY <2>1, <2>4, <3>2, <1>4, <1>3 DEF Holds
      <4>2. QED
        BY <4>1, <2>4, <2>5, <1>3, OlderFacts
    <3>3. QED
      BY <3>1, <3>2
  <2>11. InEpisode'
    <3> SUFFICES ASSUME NEW i \in Tiers, tier'[i].batch # None
                 PROVE  tier'[i].batch.age <= epoch'
      BY DEF InEpisode
    <3>1. tier[i].batch.age \in 0..Cap /\ tier[i].batch.age <= epoch
      BY <2>2, TierFacts DEF InEpisode
    <3>2. QED
      BY <2>1, <2>2, <3>1, <1>3, OlderFacts
  <2>12. QED
    BY <2>3, <2>6, <2>7, <2>8, <2>9, <2>10, <2>11
<1>7. QED
  BY <1>5, <1>6

LEMMA ReplanInv == ASSUME NEW i \in Tiers PROVE Inv /\ Replan(i) => Inv'
<1> SUFFICES ASSUME Inv, Replan(i) PROVE Inv'
  OBVIOUS
<1> USE DEF Inv
<1>1. /\ at = i /\ at' = i + 1 /\ at # 0 /\ at' # 0 /\ at' # 1 /\ DecideTier(i) # "none"
      /\ UNCHANGED <<dark, wasDark, emitted, sinceSwitch, epoch>>
      /\ i \in 1..Len(Stack) /\ Len(Stack) \in Nat
  BY StackFacts DEF Replan
<1>2. /\ {dark, wasDark, reused, missed} \subseteq BOOLEAN
      /\ sinceSwitch \in 0..Cap /\ epoch \in 0..Cap /\ Cap \in Nat
  BY StackFacts DEF TypeOK
<1>3. PICK batch \in Batches, fell \in BOOLEAN :
        /\ tier' = [tier EXCEPT ![i] = [batch |-> batch, since |-> 0, fell |-> fell]]
        /\ upstream' = batch.claims
        /\ batch.age <= epoch
        /\ \/ batch.age = 0 /\ reused' = (i # 1 /\ reused) /\ missed' = (i # 1 /\ missed)
           \/ /\ reused' = (reused \/ i = 1)
              /\ missed' = (missed \/ (i = 1 /\ recovered))
              /\ \/ tier[i].batch = None /\ batch.age = 0
                 \/ tier[i].batch = batch
  <2>1. CASE \E batch \in Decisions(i), fell \in {FALSE, Stack[i].fallback} :
          /\ tier' = [tier EXCEPT ![i] = [batch |-> batch, since |-> 0, fell |-> fell]]
          /\ upstream' = batch.claims
          /\ reused' = (i # 1 /\ reused)
          /\ missed' = (i # 1 /\ missed)
    <3>1. \A batch \in Decisions(i) : batch \in Batches /\ batch.age = 0
      <4>1. upstream \in SUBSET (Agents \X Tasks) /\ Plans \subseteq SUBSET (Agents \X Tasks)
        BY StackAssumption DEF TypeOK
      <4>2. QED
        BY <4>1, <1>2 DEF Decisions, Batches
    <3>2. {FALSE, Stack[i].fallback} \subseteq BOOLEAN
      BY StackFacts
    <3>3. QED
      <4>1. PICK batch \in Decisions(i), fell \in {FALSE, Stack[i].fallback} :
              /\ tier' = [tier EXCEPT ![i] = [batch |-> batch, since |-> 0, fell |-> fell]]
              /\ upstream' = batch.claims
              /\ reused' = (i # 1 /\ reused)
              /\ missed' = (i # 1 /\ missed)
        BY <2>1
      <4>2. batch \in Batches /\ batch.age = 0 /\ fell \in BOOLEAN /\ batch.age <= epoch
        <5>1. batch \in Batches /\ batch.age = 0
          BY <3>1
        <5>2. fell \in BOOLEAN
          BY <3>2, Zenon
        <5>3. QED
          BY <5>1, <5>2, <1>2
      <4>3. QED
        BY <4>1, <4>2
  <2>2. CASE LET kept == IF tier[i].batch = None THEN [age |-> 0, claims |-> {}] ELSE tier[i].batch
             IN  /\ tier' = [tier EXCEPT ![i] = [batch |-> kept, since |-> 0, fell |-> TRUE]]
                 /\ upstream' = kept.claims
                 /\ reused' = (reused \/ i = 1)
                 /\ missed' = (missed \/ (i = 1 /\ recovered))
    <3> DEFINE kept == IF tier[i].batch = None THEN [age |-> 0, claims |-> {}] ELSE tier[i].batch
    <3>1. kept \in Batches /\ kept.age <= epoch
      <4>1. CASE tier[i].batch = None
        BY <4>1, <1>2 DEF Batches
      <4>2. CASE tier[i].batch # None
        BY <4>2, TierFacts DEF InEpisode
      <4>3. QED
        BY <4>1, <4>2
    <3>2. (tier[i].batch = None /\ kept.age = 0) \/ tier[i].batch = kept
      OBVIOUS
    <3> HIDE DEF kept
    <3>3. QED
      BY <2>2, <3>1, <3>2 DEF kept
  <2>3. QED
    BY <2>1, <2>2 DEF Replan
<1>4. tier \in [Tiers -> TierStates] /\ [batch |-> batch, since |-> 0, fell |-> fell] \in TierStates
  BY <1>2 DEF TypeOK, TierStates
<1>5. /\ tier' \in [Tiers -> TierStates]
      /\ tier'[i].batch = batch /\ tier'[i].since = 0
      /\ \A j \in Tiers : j # i => tier'[j] = tier[j]
  BY <1>3, <1>4
<1>6. batch.age \in 0..Cap /\ batch.claims \in SUBSET (Agents \X Tasks) /\ batch # None
  BY Decided DEF Batches
<1>7. reused' \in BOOLEAN /\ missed' \in BOOLEAN
  BY <1>2, <1>3
<1>8. TypeOK'
  <2>1. ASSUME NEW j \in Tiers, j < at'
        PROVE  tier'[j].batch # None
    <3>1. CASE j = i
      BY <3>1, <1>5, <1>6
    <3>2. CASE j # i
      <4>1. j \in Int /\ i \in Int
        BY StackFacts
      <4>2. j < at
        BY <4>1, <2>1, <3>2, <1>1
      <4>3. tier[j].batch # None
        BY <4>2, <1>2 DEF TypeOK
      <4>4. QED
        BY <4>3, <3>2, <1>5
    <3>3. QED
      BY <3>1, <3>2
  <2>2. QED
    BY <1>1, <1>2, <1>3, <1>5, <1>6, <1>7, <2>1 DEF TypeOK, TierStates
<1>9. InEpisode'
  BY <1>1, <1>3, <1>5, <1>6 DEF InEpisode
<1>10. Resolved'
  BY <1>1 DEF Resolved
<1>11. ASSUME i # 1 PROVE Inv'
  <2>1. tier'[1] = tier[1] /\ (Cached' <=> Cached) /\ Turned
    BY <1>1, <1>5, <1>11, StackFacts DEF Cached, Turned
  <2>2. (~reused' => ~reused) /\ (~missed' => ~missed)
    BY <1>3, <1>11, <1>2
  <2>3. Remembers'
    BY <1>1, <2>1 DEF Remembers
  <2>4. Stamped' /\ NotExpired'
    BY <1>1, <2>1, <2>2 DEF Stamped, NotExpired, Expires, Triggers
  <2>5. Reconciled' /\ Holds'
    BY <1>1, <2>1, <2>2 DEF Reconciled, Holds, Triggers
  <2>6. QED
    BY <1>8, <1>9, <1>10, <2>3, <2>4, <2>5
<1>12. ASSUME i = 1 PROVE Inv'
  <2>1. Cached' /\ tier'[1].batch = batch /\ tier'[1].since = 0
    BY <1>5, <1>6, <1>12 DEF Cached
  <2>2. Remembers'
    BY <1>1, <2>1 DEF Remembers
  <2>3. Stamped'
    BY <1>3, <1>12, <1>2, <2>1 DEF Stamped
  <2>4. NotExpired'
    <3>1. Expires => 0 < Stack[1].horizon
      BY StackFacts
    <3>2. QED
      BY <2>1, <3>1 DEF NotExpired, Expires, Triggers
  <2>5. Reconciled'
    <3> SUFFICES ASSUME ~dark, ~missed', sinceSwitch < epoch
                 PROVE  batch.age <= sinceSwitch
      BY <1>1, <2>1 DEF Reconciled
    <3>1. CASE batch.age = 0
      BY <3>1, <1>2
    <3>2. CASE batch.age # 0
      <4>1. tier[1].batch = batch /\ ~missed /\ ~recovered
        BY <3>2, <1>3, <1>12, <1>2
      <4>2. Cached /\ ~wasDark
        BY <4>1, <1>6, <1>2 DEF Cached, recovered
      <4>3. QED
        BY <4>1, <4>2 DEF Reconciled
    <3>3. QED
      BY <3>1, <3>2
  <2>6. Holds'
    <3> SUFFICES ASSUME dark, Triggers(1) # {}, Triggers(1) \subseteq {"plan_expired", "comms_lost"}
                 PROVE  batch.age >= sinceSwitch
      BY <1>1, <2>1 DEF Holds, Triggers
    <3>1. CASE ~Cached \/ ~wasDark
      <4>1. sinceSwitch = 0
        <5>1. CASE ~Cached
          BY <5>1 DEF Remembers
        <5>2. CASE ~wasDark
          <6>1. dark # wasDark
            BY <5>2
          <6>2. QED
            BY <6>1 DEF Remembers
        <5>3. QED
          BY <3>1, <5>1, <5>2
      <4>2. QED
        BY <4>1, <1>2, <1>6
    <3>2. CASE Cached /\ wasDark
      <4>1. DecideTier(1) = "none"
        <5>1. tier[1].batch # None /\ ~recovered /\ ~justLost /\ Stack[1].role = "mission"
          BY <3>2, <1>2, StackFacts DEF Cached, recovered, justLost
        <5>2. Due(1) = "none" \/ Due(1) = "plan_expired"
          BY DueFires, StackFacts DEF Fires
        <5>3. QED
          BY <5>1, <5>2 DEF DecideTier
      <4>2. QED
        BY <4>1, <1>1, <1>12
    <3>3. QED
      BY <3>1, <3>2
  <2>7. QED
    BY <1>8, <1>9, <1>10, <2>2, <2>3, <2>4, <2>5, <2>6
<1>13. QED
  BY <1>11, <1>12

LEMMA HoldInv == ASSUME NEW i \in Tiers PROVE Inv /\ Hold(i) => Inv'
<1> SUFFICES ASSUME Inv, Hold(i) PROVE Inv'
  OBVIOUS
<1> USE DEF Inv
<1>1. /\ at = i /\ at' = i + 1 /\ at # 0 /\ at' # 0 /\ at' # 1 /\ DecideTier(i) = "none"
      /\ upstream' = tier[i].batch.claims
      /\ UNCHANGED <<tier, dark, wasDark, emitted, reused, missed, sinceSwitch, epoch>>
      /\ i \in 1..Len(Stack) /\ Len(Stack) \in Nat
  BY StackFacts DEF Hold
<1>2. tier[i].batch # None
  BY <1>1 DEF DecideTier
<1>3. TypeOK'
  <2>1. ASSUME NEW j \in Tiers, j < at'
        PROVE  tier'[j].batch # None
    <3>1. CASE j = i
      BY <3>1, <1>1, <1>2
    <3>2. CASE j # i
      <4>1. j \in Int /\ i \in Int
        BY StackFacts
      <4>2. j < at
        BY <4>1, <2>1, <3>2, <1>1
      <4>3. QED
        BY <4>2, <1>1 DEF TypeOK
    <3>3. QED
      BY <3>1, <3>2
  <2>2. QED
    BY <1>1, <1>2, <2>1, TierFacts DEF TypeOK
<1>4. InEpisode' /\ Resolved' /\ Stamped' /\ Remembers'
  BY <1>1 DEF InEpisode, Resolved, Stamped, Remembers, Cached
<1>5. Holds'
  BY <1>1 DEF Holds, Cached, Triggers
<1>6. ASSUME i = 1 PROVE ~recovered /\ (Expires /\ ~dark => tier[1].since < Stack[1].horizon)
  <2>1. ~recovered
    BY <1>1, <1>2, <1>6, StackFacts DEF DecideTier
  <2>2. ASSUME Expires, ~dark PROVE tier[1].since < Stack[1].horizon
    <3>1. Due(1) = "none"
      BY <1>1, <1>2, <1>6, <2>1, <2>2 DEF DecideTier, justLost
    <3>2. "plan_expired" \in Triggers(1)
      BY <2>2 DEF Expires
    <3>3. \/ \A t \in Triggers(1) : ~Fires(1, t)
          \/ Fires(1, Due(1))
      <4>1. Triggers(1) # {} /\ 1 \in Tiers
        BY <3>2, StackFacts
      <4>2. QED
        BY <4>1, DueFires
    <3>4. ~(tier[1].since >= Stack[1].horizon)
      BY <3>1, <3>2, <3>3 DEF Fires
    <3>5. tier[1].since \in 0..Cap /\ Stack[1].horizon \in 0..Cap - 1 /\ Cap \in Nat
      BY StackFacts, TierFacts
    <3>6. QED
      BY <3>4, <3>5
  <2>3. QED
    BY <2>1, <2>2
<1>7. NotExpired'
  <2>1. CASE i = 1
    BY <2>1, <1>1, <1>6 DEF NotExpired, Cached, Expires, Triggers
  <2>2. CASE i # 1
    BY <2>2, <1>1 DEF NotExpired, Cached, Turned, Expires, Triggers
  <2>3. QED
    BY <2>1, <2>2
<1>8. Reconciled'
  <2>1. CASE i = 1
    BY <2>1, <1>1, <1>6 DEF Reconciled, Cached, recovered
  <2>2. CASE i # 1
    BY <2>2, <1>1 DEF Reconciled, Cached, Turned
  <2>3. QED
    BY <2>1, <2>2
<1>9. QED
  BY <1>3, <1>4, <1>5, <1>7, <1>8

LEMMA EmitInv == Inv /\ Emit => Inv'
<1> SUFFICES ASSUME Inv, Emit PROVE Inv'
  OBVIOUS
<1> USE DEF Inv
<1>1. /\ at = Len(Stack) + 1 /\ at' = 0 /\ at # 0 /\ at # 1 /\ 1 < at
      /\ emitted' = (IF dark THEN Coordinated ELSE upstream)
      /\ wasDark' = dark
      /\ UNCHANGED <<tier, upstream, dark, reused, missed, sinceSwitch, epoch>>
      /\ 1 \in Tiers
  BY StackFacts DEF Emit
<1>2. Cached /\ Cached'
  BY <1>1 DEF TypeOK, Cached
<1>3. TypeOK'
  <2>1. emitted' \subseteq Agents \X Tasks
    BY <1>1 DEF TypeOK, Coordinated
  <2>2. \A i \in Tiers : ~(i < at')
    BY <1>1, StackFacts
  <2>3. 0 \in 0..Len(Stack) + 1
    BY StackFacts
  <2>4. QED
    BY <1>1, <2>1, <2>2, <2>3 DEF TypeOK
<1>4. Remembers'
  BY <1>1, <1>2 DEF Remembers
<1>5. Stamped' /\ NotExpired' /\ InEpisode' /\ Holds'
  BY <1>1 DEF Stamped, NotExpired, InEpisode, Holds, Cached, Turned, Expires, Triggers
<1>6. Reconciled'
  BY <1>1 DEF Reconciled, Cached, Turned
<1>7. Resolved'
  BY <1>1 DEF Resolved, Coordinated, Yielded
<1>8. QED
  BY <1>3, <1>4, <1>5, <1>6, <1>7

LEMMA NextInv == Inv /\ [Next]_vars => Inv'
<1> SUFFICES ASSUME Inv, [Next]_vars PROVE Inv'
  OBVIOUS
<1>1. CASE StartTick
  BY <1>1, StartTickInv
<1>2. CASE \E i \in Tiers : Replan(i) \/ Hold(i)
  BY <1>2, ReplanInv, HoldInv
<1>3. CASE Emit
  BY <1>3, EmitInv
<1>4. CASE UNCHANGED vars
  BY <1>4 DEF vars, Inv, TypeOK, Remembers, Stamped, NotExpired, Reconciled, Holds, InEpisode,
    Resolved, Cached, Turned, Expires, Triggers, Coordinated, Yielded
<1>5. QED
  BY <1>1, <1>2, <1>3, <1>4 DEF Next

-----------------------------------------------------------------------------
(* The theorems. *)

(* The invariant holds of every reachable state. *)
THEOREM Invariance == Spec => []Inv
BY InitInv, NextInv, PTL DEF Spec

(* strategy.py, degrade.py: caches, ages and claims keep their shape, and a *)
(* tier whose turn is over has decided, as the assertion of decide says.    *)
THEOREM TypeCorrect == Spec => []TypeOK
<1>1. Inv => TypeOK
  BY DEF Inv
<1>2. QED
  BY <1>1, Invariance, PTL

(* degrade.py:137: with comms up no mission plan past its horizon is in     *)
(* force where plan_expired is a trigger, whenever comms are lost, except   *)
(* after a turn on which all policies of the mission raised: its plan is    *)
(* then reused and stamped anew (strategy.py:156), however old it is.       *)
THEOREM PlansAreFresh == Spec => []FreshWhenLit
<1>1. Inv => FreshWhenLit
  BY DEF Inv, Stamped, NotExpired, FreshWhenLit, Acting, Cached, Turned
<1>2. QED
  BY <1>1, Invariance, PTL

(* degrade.py:141-153: after a blackout the swarm acts on a plan made when  *)
(* comms came back or later, through one on the plan it went dark with.     *)
THEOREM PlansAreOfTheirRegime == Spec => []PlanOfRegime
<1>1. Inv => PlanOfRegime
  BY DEF Inv, Reconciled, Holds, PlanOfRegime, Acting, Cached, Turned
<1>2. QED
  BY <1>1, Invariance, PTL

(* policy.py:102: nothing decided in one episode is acted on in the next. *)
THEOREM EpisodesAreApart == Spec => []NoCarryOver
<1>1. Inv => NoCarryOver
  BY DEF Inv, InEpisode, NoCarryOver
<1>2. QED
  BY <1>1, Invariance, PTL

LEMMA ClaimShape ==
  ASSUME NEW x \in Agents \X Tasks
  PROVE  x = <<x[1], x[2]>> /\ x[1] \in Int
<1>1. x = <<x[1], x[2]>> /\ x[1] \in Agents
  OBVIOUS
<1>2. QED
  BY <1>1, StackAssumption

(* Of the claimants of a task one has the lowest id, and it does not yield  *)
(* unless it claims a second task.                                          *)
LEMMA SomeoneKeeps ==
  ASSUME NEW claims \in SUBSET (Agents \X Tasks), NEW c \in claims,
         \A x, y \in claims : x[1] = y[1] => x = y
  PROVE  \E d \in claims : d[2] = c[2] /\ d[1] \notin Yielded(claims)
<1> DEFINE rivals == {a \in Agents : <<a, c[2]>> \in claims}
<1>1. c = <<c[1], c[2]>> /\ c[1] \in rivals
  OBVIOUS
<1>2. rivals \in SUBSET Int /\ IsFiniteSet(rivals)
  BY StackAssumption, FS_Subset
<1>3. PICK a \in rivals : \A b \in rivals : a <= b
  BY <1>1, <1>2, HasLeast
<1> DEFINE d == <<a, c[2]>>
<1>4. d \in claims /\ d[1] = a /\ d[2] = c[2] /\ a \in Int
  BY <1>2, <1>3
<1>5. ASSUME a \in Yielded(claims) PROVE FALSE
  <2>1. PICK x \in claims : x[1] = a /\ \E y \in claims : y[2] = x[2] /\ y[1] < x[1]
    BY <1>5 DEF Yielded
  <2>2. x = d
    BY <1>4, <2>1
  <2>3. PICK y \in claims : y[2] = c[2] /\ y[1] < a
    BY <1>4, <2>1, <2>2
  <2>4. y = <<y[1], c[2]>> /\ y[1] \in rivals
    BY <2>3
  <2>5. a <= y[1] /\ y[1] \in Int
    BY <1>2, <1>3, <2>4
  <2>6. QED
    BY <1>4, <2>3, <2>5
<1>6. QED
  BY <1>4, <1>5

(* degrade.py:172: in the dark, as long as what the last tier emits was      *)
(* computed from the mission's plan in force, no two agents work one task,   *)
(* and where no agent claims two every claimed task keeps a worker.  When    *)
(* the last tier falls back on an older cache nothing is promised.           *)
THEOREM OneWorkerPerTask == Spec => []OneWorker
<1>1. ASSUME Inv PROVE OneWorker
  <2> DEFINE claims == tier[1].batch.claims
  <2> SUFFICES ASSUME Acting, dark, upstream = claims
               PROVE  /\ \A c, d \in emitted : c[2] = d[2] => c = d
                      /\ (\A c, d \in claims : c[1] = d[1] => c = d)
                           => \A c \in claims : \E d \in emitted : c[2] = d[2]
    BY DEF OneWorker
  <2>1. claims \in SUBSET (Agents \X Tasks)
    BY <1>1, StackFacts, TierFacts DEF Inv, Acting
  <2>2. emitted = {c \in claims : c[1] \notin Yielded(claims)}
    BY <1>1 DEF Inv, Resolved, Acting, Coordinated
  <2> HIDE DEF claims
  <2>3. ASSUME NEW c \in emitted, NEW d \in emitted, c[2] = d[2] PROVE c = d
    <3>1. /\ c \in claims /\ d \in claims /\ c[1] \in Int /\ d[1] \in Int
          /\ c = <<c[1], c[2]>> /\ d = <<d[1], d[2]>>
      <4>1. c \in claims /\ d \in claims /\ Agents \subseteq Int
        BY <2>2, <2>3, StackAssumption
      <4>2. c \in Agents \X Tasks /\ d \in Agents \X Tasks
        BY <2>1, <4>1
      <4>3. QED
        BY <4>1, <4>2, ClaimShape
    <3>2. ~(d[1] < c[1]) /\ ~(c[1] < d[1])
      BY <2>2, <2>3, <3>1 DEF Yielded
    <3>3. QED
      BY <2>3, <3>1, <3>2
  <2>4. ASSUME \A c, d \in claims : c[1] = d[1] => c = d, NEW c \in claims
        PROVE  \E d \in emitted : c[2] = d[2]
    <3>1. PICK d \in claims : d[2] = c[2] /\ d[1] \notin Yielded(claims)
      BY <2>1, <2>4, SomeoneKeeps
    <3>2. QED
      BY <2>2, <3>1
  <2>5. QED
    BY <2>3, <2>4
<1>2. QED
  BY <1>1, Invariance, PTL
=============================================================================
