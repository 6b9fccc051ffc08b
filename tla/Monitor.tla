------------------------------- MODULE Monitor -------------------------------
(***************************************************************************)
(* Guard's runtime monitors (rust/src/monitors.rs): a temporal clause is a *)
(* post-ordered plan of nodes, evaluated incrementally with robust         *)
(* (quantitative) semantics over ring buffers of fixed capacity, and       *)
(* extrapolated one step: a clause that still holds but is falling towards *)
(* violation within Horizon ticks fires early.                             *)
(*                                                                         *)
(* Monitor::step is a loop over the nodes; each iteration is an action.    *)
(* Robustness values are integers here, with Infinity for f64::INFINITY.   *)
(***************************************************************************)
EXTENDS Integers, Sequences, FiniteSetsExt

CONSTANTS
  Plan,       \* the nodes: [op, atom, args, lo, hi], children first
  Atoms,      \* atomic predicates
  Margins,    \* signed robustness values an atom may take
  Infinity,
  Horizon,    \* predictive_horizon_samples
  MaxTicks,   \* bound: ticks of a run
  NoRoot      \* "no tick before this one"

Nodes == 1..Len(Plan)
Root == Len(Plan)
Windowed == {i \in Nodes : Plan[i].op \in {"always", "eventually", "until"}}
Ops == {"predicate", "not", "and", "or", "always", "eventually", "until"}

NodeRecord == [op : Ops, atom : Atoms, args : Seq(Nodes), lo : Nat, hi : Nat]

(* What CompiledNode::validate admits, and flatten's order. *)
ASSUME PlanAssumption ==
  /\ Plan \in Seq(NodeRecord) /\ Plan # <<>>
  /\ \A i \in Nodes :
       /\ \A a \in DOMAIN Plan[i].args : Plan[i].args[a] < i
       /\ Plan[i].op \in {"not", "always", "eventually"} => Len(Plan[i].args) = 1
       /\ Plan[i].op = "until" => Len(Plan[i].args) = 2
       /\ Plan[i].lo <= Plan[i].hi
  /\ Margins \subseteq Int
  /\ Infinity \in Int
  /\ \A m \in Margins : -Infinity < m /\ m < Infinity
  /\ Horizon \in Nat \ {0}
  /\ MaxTicks \in Nat
  /\ NoRoot \notin Int

VARIABLES
  heard,      \* history: the robustness of each atom at each tick begun
  at,         \* the loop of step: the next node, 0 between two calls
  ring,       \* ring[i][a]: past values of the a-th argument of node i
  cur,        \* the value of each node, as last evaluated
  prev_root,  \* the clause's robustness at the last tick
  verdict,    \* what the last call returned
  past        \* history: the value of every node at each finished tick

vars == <<heard, at, ring, cur, prev_root, verdict, past>>

(* predicate_robustness of the call. *)
reading == heard[Len(heard)]

-----------------------------------------------------------------------------
(* RingBuf *)

(* Faulty variant: a slot for each tick before this one, none for this one. *)
CapacityShort(i) == IF Plan[i].hi = 0 THEN 1 ELSE Plan[i].hi

Capacity(i) == Plan[i].hi + 1

Empty(cap) == [data |-> [slot \in 0..(cap - 1) |-> 0], cap |-> cap, head |-> 0, len |-> 0]

(* Faulty variant: head runs past the last slot. *)
PushUnwrapped(b, v) ==
  [data |-> [b.data EXCEPT ![b.head] = v],
   cap  |-> b.cap,
   head |-> b.head + 1,
   len  |-> IF b.len < b.cap THEN b.len + 1 ELSE b.len]

Push(b, v) ==
  [data |-> [b.data EXCEPT ![b.head] = v],
   cap  |-> b.cap,
   head |-> (b.head + 1) % b.cap,
   len  |-> IF b.len < b.cap THEN b.len + 1 ELSE b.len]

(* The value k ticks ago; defined for k < b.len. *)
Ago(b, k) == b.data[(b.head + b.cap - 1 - k) % b.cap]

Init ==
  /\ heard = <<>>
  /\ at = 0
  /\ ring = [i \in Nodes |-> [a \in 1..2 |-> Empty(Capacity(i))]]
  /\ cur = [i \in Nodes |-> 0]
  /\ prev_root = NoRoot
  /\ verdict = [violated |-> FALSE, predicted |-> FALSE]
  /\ past = <<>>

-----------------------------------------------------------------------------
(* eval_node *)

Least(S) == Min(S \cup {Infinity})
Greatest(S) == Max(S \cup {-Infinity})

Arg(i, a) == cur[Plan[i].args[a]]
Args(i) == {Arg(i, a) : a \in DOMAIN Plan[i].args}

(* The window operators push before they reduce. *)
Pushed(i, a) == Push(ring[i][a], Arg(i, a))

Recent(b, lo, hi) == {Ago(b, k) : k \in {n \in lo..hi : n < b.len}}

Until(phi, psi, lo, hi) ==
  Greatest({Least({Ago(psi, k)} \cup Recent(phi, 0, k - 1)) : k \in {n \in lo..hi : n < psi.len}})

Value(i) ==
  LET n == Plan[i] IN
  CASE n.op = "predicate"  -> reading[n.atom]
    [] n.op = "not"        -> -Arg(i, 1)
    [] n.op = "and"        -> Least(Args(i))
    [] n.op = "or"         -> Greatest(Args(i))
    [] n.op = "always"     -> Least(Recent(Pushed(i, 1), n.lo, n.hi))
    [] n.op = "eventually" -> Greatest(Recent(Pushed(i, 1), n.lo, n.hi))
    [] n.op = "until"      -> Until(Pushed(i, 1), Pushed(i, 2), n.lo, n.hi)

(* step is called with the predicates' robustness. *)
Begin(r) ==
  /\ at = 0
  /\ Len(heard) < MaxTicks
  /\ heard' = Append(heard, r)
  /\ at' = 1
  /\ UNCHANGED <<ring, cur, prev_root, verdict, past>>

EvalNode ==
  /\ at \in Nodes
  /\ cur' = [cur EXCEPT ![at] = Value(at)]
  /\ ring' = IF at \in Windowed
             THEN [ring EXCEPT ![at] =
                     [a \in 1..2 |-> IF a \in DOMAIN Plan[at].args THEN Pushed(at, a) ELSE @[a]]]
             ELSE ring
  /\ at' = at + 1
  /\ UNCHANGED <<heard, prev_root, verdict, past>>

(* Faulty variant: prev_root is overwritten before the slope is taken. *)
NoTrend(prev, r) == FALSE

(* Faulty variant: a flat signal counts as falling. *)
FallingOrFlat(prev, r) == r <= prev /\ (prev = Infinity \/ r <= Horizon * (prev - r))

(* The slope is robustness - prev per tick; after an infinite robustness   *)
(* it is infinite, and zero samples are left.                              *)
Falling(prev, r) == r < prev /\ (prev = Infinity \/ r <= Horizon * (prev - r))

Violated == cur[Root] < 0
Predicted == prev_root # NoRoot /\ ~Violated /\ Falling(prev_root, cur[Root])

Conclude ==
  /\ at = Len(Plan) + 1
  /\ verdict' = [violated |-> Violated, predicted |-> Predicted]
  /\ prev_root' = cur[Root]
  /\ past' = Append(past, cur)
  /\ at' = 0
  /\ UNCHANGED <<heard, ring, cur>>

Next ==
  \/ \E r \in [Atoms -> Margins] : Begin(r)
  \/ EvalNode
  \/ Conclude

Spec == Init /\ [][Next]_vars
-----------------------------------------------------------------------------
(* Properties. *)

Ring(i) ==
  [data : [0..(Capacity(i) - 1) -> Int], cap : {Capacity(i)},
   head : 0..(Capacity(i) - 1), len : 0..Capacity(i)]

(* The buffers keep the capacity they were built with, and step its place  *)
(* in the plan.                                                            *)
TypeOK ==
  /\ heard \in Seq([Atoms -> Margins])
  /\ Len(heard) = Len(past) + (IF at = 0 THEN 0 ELSE 1)
  /\ at \in 0..(Len(Plan) + 1)
  /\ DOMAIN ring = Nodes
  /\ \A i \in Nodes : \A a \in 1..2 : ring[i][a] \in Ring(i)
  /\ cur \in [Nodes -> Int]
  /\ prev_root \in Int \cup {NoRoot}
  /\ verdict \in [violated : BOOLEAN, predicted : BOOLEAN]
  /\ past \in Seq([Nodes -> Int])

(* The bounded past-time semantics: the robustness of node i at tick t,    *)
(* from the whole history h of its arguments and the signal of the atoms.  *)
Meaning(i, t, h, signal) ==
  LET n == Plan[i]
      sub(a, k) == h[t - k][n.args[a]]
      window == {k \in n.lo..n.hi : k < t}
  IN
  CASE n.op = "predicate"  -> signal[t][n.atom]
    [] n.op = "not"        -> -sub(1, 0)
    [] n.op = "and"        -> Least({sub(a, 0) : a \in DOMAIN n.args})
    [] n.op = "or"         -> Greatest({sub(a, 0) : a \in DOMAIN n.args})
    [] n.op = "always"     -> Least({sub(1, k) : k \in window})
    [] n.op = "eventually" -> Greatest({sub(1, k) : k \in window})
    [] n.op = "until"      ->
         Greatest({Least({sub(2, k)} \cup {sub(1, j) : j \in 0..(k - 1)}) : k \in window})

(* The incremental evaluation in bounded memory computes the robustness of *)
(* the clause over the whole history (monitors.rs, "bounded past-time      *)
(* robust semantics"): at every tick the value of every node is what the   *)
(* semantics makes of the values of its arguments.                         *)
MatchesSemantics ==
  \A t \in 1..Len(past) : \A i \in Nodes : past[t][i] = Meaning(i, t, past, heard)

(* A ring buffer that was pushed the values of s, oldest first, returns    *)
(* the last of them, as many as it has slots.                              *)
Holds(b, s) ==
  /\ b.len = IF Len(s) < b.cap THEN Len(s) ELSE b.cap
  /\ \A k \in 0..(b.len - 1) : Ago(b, k) = s[Len(s) - k]

(* The values an argument had at every tick at which node i was evaluated. *)
Fed(i, a) ==
  LET child == Plan[i].args[a]
      earlier == [t \in 1..Len(past) |-> past[t][child]]
  IN IF at > i THEN Append(earlier, cur[child]) ELSE earlier

(* Each window buffer holds exactly the most recent values of its argument.*)
WindowsHold ==
  \A i \in Windowed : \A a \in DOMAIN Plan[i].args : Holds(ring[i][a], Fed(i, a))

(* monitors.rs, "about to be violated in time": a clause that turns false  *)
(* without falling faster than the tick before was predicted to, at the    *)
(* latest the tick before.                                                 *)
WarnsBeforeViolation ==
  LET n == Len(past)
      r(t) == past[t][Root]
  IN
  (at = Len(Plan) + 1 /\ n >= 2 /\ Violated
     /\ r(n) >= 0 /\ r(n) < Infinity
     /\ r(n) - cur[Root] <= r(n - 1) - r(n))
  => verdict.predicted

(* monitors.rs, "trending to violation within the predictive horizon": on  *)
(* a signal that has never moved there is no trend, and a clause it        *)
(* satisfies does not fire.                                                *)
Steady == \A t \in 1..Len(past) :
            \A i \in Nodes : Plan[i].op = "predicate" => past[t][i] = past[1][i]
SteadyNeverAlarms == (at = 0 /\ Steady) => ~verdict.predicted
=============================================================================
