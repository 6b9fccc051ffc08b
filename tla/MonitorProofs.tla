---------------------------- MODULE MonitorProofs ----------------------------
(* Proofs about Monitor: for every plan of nodes, every window and every   *)
(* length of run.                                                          *)
EXTENDS Monitor, Extrema, SequenceTheorems

-----------------------------------------------------------------------------
(* Arithmetic and finite sets. *)

(* Wrapping around a buffer of c slots, at most once. *)
LEMMA Wrap ==
  ASSUME NEW c \in Nat \ {0}, NEW x \in Nat
  PROVE  /\ x < c => x % c = x
         /\ (c <= x /\ x < 2 * c) => x % c = x - c
         /\ x % c \in 0..(c - 1)
OBVIOUS

(* Least and Greatest of finitely many robustness values. *)
LEMMA Extremes ==
  ASSUME NEW S \in SUBSET Int, IsFiniteSet(S)
  PROVE  Least(S) \in Int /\ Greatest(S) \in Int
<1>1. Infinity \in Int /\ -Infinity \in Int
  BY PlanAssumption
<1>2. /\ S \cup {Infinity} \in SUBSET Int /\ S \cup {Infinity} # {}
      /\ S \cup {-Infinity} \in SUBSET Int /\ S \cup {-Infinity} # {}
  BY <1>1
<1>3. IsFiniteSet(S \cup {Infinity}) /\ IsFiniteSet(S \cup {-Infinity})
  BY FS_AddElement
<1>4. \E x \in S \cup {Infinity} : \A y \in S \cup {Infinity} : x <= y
  BY <1>2, <1>3, HasLeast
<1>5. \E x \in S \cup {-Infinity} : \A y \in S \cup {-Infinity} : x >= y
  BY <1>2, <1>3, HasGreatest
<1>6. QED
  BY <1>2, <1>4, <1>5 DEF Least, Greatest, Min, Max

-----------------------------------------------------------------------------
(* Ring buffers. *)

RingOf(c) == [data : [0..(c - 1) -> Int], cap : {c}, head : 0..(c - 1), len : 0..c]

(* Where the value k ticks ago is, without the modulo. *)
LEMMA Slot ==
  ASSUME NEW c \in Nat \ {0}, NEW h \in 0..(c - 1), NEW k \in 0..(c - 1)
  PROVE  (h + c - 1 - k) % c = IF k < h THEN h - 1 - k ELSE h + c - 1 - k
<1>1. PICK x \in Nat : x = h + c - 1 - k
  OBVIOUS
<1>2. (x < c => x % c = x) /\ ((c <= x /\ x < 2 * c) => x % c = x - c)
  BY Wrap
<1>3. CASE k < h
  <2>1. x % c = x - c
    BY <1>1, <1>2, <1>3
  <2>2. QED
    BY <2>1, <1>1, <1>3
<1>4. CASE h <= k
  <2>1. x % c = x
    BY <1>1, <1>2, <1>4
  <2>2. QED
    BY <2>1, <1>1, <1>4
<1>5. QED
  BY <1>3, <1>4

(* Advancing the head by one ages every slot by one tick. *)
LEMMA NextSlot ==
  ASSUME NEW c \in Nat \ {0}, NEW h \in 0..(c - 1), NEW k \in 0..(c - 1),
         NEW g \in 0..(c - 1), g = IF h + 1 < c THEN h + 1 ELSE 0
  PROVE  LET old == IF k - 1 < h THEN h - 1 - (k - 1) ELSE h + c - 1 - (k - 1)
             new == IF k < g THEN g - 1 - k ELSE g + c - 1 - k
         IN  /\ k = 0 => new = h
             /\ k > 0 => new = old /\ old # h /\ old \in 0..(c - 1)
<1>1. CASE h + 1 < c
  BY <1>1
<1>2. CASE h = c - 1
  BY <1>2
<1>3. QED
  BY <1>1, <1>2

LEMMA EmptyHolds ==
  ASSUME NEW c \in Nat \ {0}
  PROVE  Empty(c) \in RingOf(c) /\ Holds(Empty(c), <<>>)
BY DEF Empty, RingOf, Holds

(* Pushing a value makes it the newest and keeps the others, a tick older. *)
LEMMA PushHolds ==
  ASSUME NEW c \in Nat \ {0}, NEW b \in RingOf(c),
         NEW s \in Seq(Int), NEW v \in Int, Holds(b, s)
  PROVE  Push(b, v) \in RingOf(c) /\ Holds(Push(b, v), Append(s, v))
<1> DEFINE p == Push(b, v)
<1>1. /\ b.data \in [0..(c - 1) -> Int] /\ b.cap = c
      /\ b.head \in 0..(c - 1) /\ b.len \in 0..c
  BY DEF RingOf
<1>2. /\ p.data = [b.data EXCEPT ![b.head] = v]
      /\ p.cap = c
      /\ p.head = (b.head + 1) % c
      /\ p.len = IF b.len < c THEN b.len + 1 ELSE b.len
  BY <1>1 DEF Push
<1>3. p.head = IF b.head + 1 < c THEN b.head + 1 ELSE 0
  <2>1. PICK x \in Nat : x = b.head + 1
    BY <1>1
  <2>2. (x < c => x % c = x) /\ ((c <= x /\ x < 2 * c) => x % c = x - c)
    BY Wrap
  <2>3. x <= c /\ c < 2 * c
    BY <2>1, <1>1
  <2>4. QED
    BY <2>1, <2>2, <2>3, <1>2
<1>4. p \in RingOf(c)
  <2>1. p.data \in [0..(c - 1) -> Int]
    BY <1>1, <1>2
  <2>2. p.head \in 0..(c - 1)
    BY <1>1, <1>3
  <2>3. p.len \in 0..c
    <3> HIDE DEF p
    <3>1. PICK l \in 0..c : l = b.len
      BY <1>1
    <3>2. p.len = IF l < c THEN l + 1 ELSE l
      BY <1>2, <3>1
    <3>3. QED
      BY <3>2
  <2>4. p = [data |-> p.data, cap |-> c, head |-> p.head, len |-> p.len]
    BY <1>1 DEF Push
  <2>5. QED
    BY <2>1, <2>2, <2>3, <2>4 DEF RingOf
<1>5. Len(Append(s, v)) = Len(s) + 1 /\ Len(s) \in Nat
  OBVIOUS
<1>6. p.len = IF Len(s) + 1 < c THEN Len(s) + 1 ELSE c
  <2> HIDE DEF p
  <2>1. b.len = IF Len(s) < c THEN Len(s) ELSE c
    BY <1>1 DEF Holds
  <2>2. PICK n \in Nat, l \in Int : n = Len(s) /\ l = b.len
    BY <1>1, <1>5
  <2>3. p.len = IF l < c THEN l + 1 ELSE l
    BY <1>2, <2>2
  <2>4. l = IF n < c THEN n ELSE c
    BY <2>1, <2>2
  <2>5. p.len = IF n + 1 < c THEN n + 1 ELSE c
    BY <2>3, <2>4
  <2>6. QED
    BY <2>2, <2>5
<1>7. ASSUME NEW k \in 0..(p.len - 1)
      PROVE  Ago(p, k) = Append(s, v)[Len(s) + 1 - k]
  <2>1. k \in 0..(c - 1) /\ k < Len(s) + 1
    BY <1>5, <1>6, <1>7
  <2>2. Ago(p, k) = p.data[IF k < p.head THEN p.head - 1 - k ELSE p.head + c - 1 - k]
    <3>1. PICK h \in 0..(c - 1) : h = p.head
      BY <1>1, <1>3
    <3>2. (h + c - 1 - k) % c = IF k < h THEN h - 1 - k ELSE h + c - 1 - k
      BY <2>1, Slot
    <3>3. QED
      BY <3>1, <3>2, <1>2 DEF Ago
  <2>2a. LET old == IF k - 1 < b.head THEN b.head - 1 - (k - 1) ELSE b.head + c - 1 - (k - 1)
            new == IF k < p.head THEN p.head - 1 - k ELSE p.head + c - 1 - k
        IN  /\ k = 0 => new = b.head
            /\ k > 0 => new = old /\ old # b.head /\ old \in 0..(c - 1)
    <3>1. PICK h \in 0..(c - 1) : h = b.head
      BY <1>1
    <3>2. PICK g \in 0..(c - 1) : g = p.head
      BY <1>1, <1>3
    <3>3. g = IF h + 1 < c THEN h + 1 ELSE 0
      BY <3>1, <3>2, <1>3
    <3>4. LET old == IF k - 1 < h THEN h - 1 - (k - 1) ELSE h + c - 1 - (k - 1)
              new == IF k < g THEN g - 1 - k ELSE g + c - 1 - k
          IN  /\ k = 0 => new = h
              /\ k > 0 => new = old /\ old # h /\ old \in 0..(c - 1)
      BY <2>1, <3>3, NextSlot
    <3>5. QED
      BY <3>1, <3>2, <3>4
  <2>3. CASE k = 0
    <3>1. (IF k < p.head THEN p.head - 1 - k ELSE p.head + c - 1 - k) = b.head
      BY <2>3, <2>2a
    <3>2. Ago(p, k) = p.data[b.head]
      BY <2>2, <3>1
    <3>3. QED
      BY <3>2, <2>3, <1>1, <1>2, <1>5
  <2>4. CASE k > 0
    <3> DEFINE j == k - 1
               slot == IF j < b.head THEN b.head - 1 - j ELSE b.head + c - 1 - j
    <3>1. j \in 0..(c - 1) /\ j \in 0..(b.len - 1)
      BY <2>1, <2>4, <1>1, <1>2, <1>7
    <3>2. Ago(b, j) = b.data[slot]
      <4>1. PICK h \in 0..(c - 1) : h = b.head
        BY <1>1
      <4>2. PICK jj \in 0..(c - 1) : jj = j
        BY <3>1
      <4>3. (h + c - 1 - jj) % c = IF jj < h THEN h - 1 - jj ELSE h + c - 1 - jj
        BY Slot
      <4>4. QED
        BY <4>1, <4>2, <4>3, <1>1 DEF Ago
    <3>3. Ago(p, k) = p.data[slot] /\ slot # b.head /\ slot \in 0..(c - 1)
      BY <2>2, <2>4, <2>2a
    <3>4. Ago(p, k) = b.data[slot]
      BY <3>3, <1>1, <1>2
    <3>5. Ago(b, j) = s[Len(s) - j]
      BY <3>1 DEF Holds
    <3>6. Append(s, v)[Len(s) + 1 - k] = s[Len(s) - j]
      BY <2>1, <2>4, <1>5
    <3>7. QED
      BY <3>2, <3>4, <3>5, <3>6
  <2>5. QED
    BY <2>1, <2>3, <2>4
<1>8. QED
  BY <1>2, <1>4, <1>5, <1>6, <1>7 DEF Holds

-----------------------------------------------------------------------------
(* The plan. *)

LEMMA NodeFacts ==
  ASSUME NEW i \in Nodes
  PROVE  /\ i \in Nat /\ i >= 1
         /\ Plan[i].op \in Ops /\ Plan[i].atom \in Atoms
         /\ Plan[i].lo \in Nat /\ Plan[i].hi \in Nat
         /\ Plan[i].args \in Seq(Nodes)
         /\ \A a \in DOMAIN Plan[i].args : Plan[i].args[a] \in Nodes /\ Plan[i].args[a] < i
         /\ Plan[i].op \in {"not", "always", "eventually"} => DOMAIN Plan[i].args = {1}
         /\ Plan[i].op = "until" => DOMAIN Plan[i].args = 1..2
         /\ Capacity(i) \in Nat \ {0}
         /\ Ring(i) = RingOf(Capacity(i))
<1>1. Plan[i] \in NodeRecord
  BY PlanAssumption DEF Nodes
<1>2. /\ Plan[i].op \in Ops /\ Plan[i].atom \in Atoms
      /\ Plan[i].lo \in Nat /\ Plan[i].hi \in Nat /\ Plan[i].args \in Seq(Nodes)
  BY <1>1 DEF NodeRecord
<1>3. \A a \in DOMAIN Plan[i].args : Plan[i].args[a] \in Nodes /\ Plan[i].args[a] < i
  BY <1>2, PlanAssumption, ElementOfSeq
<1>4. DOMAIN Plan[i].args = 1..Len(Plan[i].args)
  BY <1>2
<1>5. Plan[i].op \in {"not", "always", "eventually"} => DOMAIN Plan[i].args = {1}
  <2>1. Plan[i].op \in {"not", "always", "eventually"} => Len(Plan[i].args) = 1
    BY PlanAssumption
  <2>2. 1..1 = {1}
    OBVIOUS
  <2>3. QED
    BY <2>1, <2>2, <1>4
<1>6. Plan[i].op = "until" => DOMAIN Plan[i].args = 1..2
  BY <1>4, PlanAssumption
<1>7. i \in Nat /\ i >= 1
  BY DEF Nodes
<1>8. QED
  BY <1>2, <1>3, <1>5, <1>6, <1>7 DEF Capacity, Ring, RingOf

LEMMA WindowedFacts ==
  ASSUME NEW i \in Windowed
  PROVE  /\ i \in Nodes
         /\ DOMAIN Plan[i].args = IF Plan[i].op = "until" THEN 1..2 ELSE {1}
BY NodeFacts DEF Windowed

-----------------------------------------------------------------------------
(* One evaluation. *)

(* Meaning looks only at the arguments, and never after tick t. *)
LEMMA MeaningLocal ==
  ASSUME NEW i \in Nodes, NEW t \in Nat \ {0}, NEW g, NEW h, NEW x, NEW y,
         x[t] = y[t],
         \A k \in 0..(t - 1) : \A a \in DOMAIN Plan[i].args :
            g[t - k][Plan[i].args[a]] = h[t - k][Plan[i].args[a]]
  PROVE  Meaning(i, t, g, x) = Meaning(i, t, h, y)
<1> DEFINE n == Plan[i]
           W == {k \in n.lo..n.hi : k < t}
<1>1. W \subseteq 0..(t - 1)
  BY NodeFacts
<1>2. \A a \in DOMAIN n.args : g[t - 0][n.args[a]] = h[t - 0][n.args[a]]
  OBVIOUS
<1>3. n.op \in Ops
  BY NodeFacts
<1>4. CASE n.op = "predicate"
  BY <1>4 DEF Meaning
<1>5. CASE n.op = "not"
  <2>1. 1 \in DOMAIN n.args
    BY <1>5, NodeFacts
  <2>2. QED
    BY <2>1, <1>2, <1>5 DEF Meaning
<1>6. CASE n.op = "and"
  <2>1. {g[t - 0][n.args[a]] : a \in DOMAIN n.args} = {h[t - 0][n.args[a]] : a \in DOMAIN n.args}
    BY <1>2
  <2>2. QED
    BY <2>1, <1>6 DEF Meaning
<1>7. CASE n.op = "or"
  <2>1. {g[t - 0][n.args[a]] : a \in DOMAIN n.args} = {h[t - 0][n.args[a]] : a \in DOMAIN n.args}
    BY <1>2
  <2>2. QED
    BY <2>1, <1>7 DEF Meaning
<1>8. CASE n.op \in {"always", "eventually"}
  <2>1. 1 \in DOMAIN n.args
    BY <1>8, NodeFacts
  <2>2. {g[t - k][n.args[1]] : k \in W} = {h[t - k][n.args[1]] : k \in W}
    BY <2>1, <1>1
  <2>3. QED
    BY <2>2, <1>8 DEF Meaning
<1>9. CASE n.op = "until"
  <2>1. 1 \in DOMAIN n.args /\ 2 \in DOMAIN n.args
    BY <1>9, NodeFacts
  <2> DEFINE G(k) == Least({g[t - k][n.args[2]]} \cup {g[t - j][n.args[1]] : j \in 0..(k - 1)})
             H(k) == Least({h[t - k][n.args[2]]} \cup {h[t - j][n.args[1]] : j \in 0..(k - 1)})
  <2>2. ASSUME NEW k \in W PROVE G(k) = H(k)
    <3>1. k \in 0..(t - 1) /\ 0..(k - 1) \subseteq 0..(t - 1)
      BY <1>1
    <3>2. {g[t - j][n.args[1]] : j \in 0..(k - 1)} = {h[t - j][n.args[1]] : j \in 0..(k - 1)}
      BY <2>1, <3>1
    <3>3. g[t - k][n.args[2]] = h[t - k][n.args[2]]
      BY <2>1, <3>1
    <3>4. QED
      BY <3>2, <3>3
  <2>3. {G(k) : k \in W} = {H(k) : k \in W}
    BY <2>2
  <2>4. QED
    BY <2>3, <1>9 DEF Meaning
<1>10. QED
  BY <1>3, <1>4, <1>5, <1>6, <1>7, <1>8, <1>9 DEF Ops

(* What the buffer of a window operator holds once its argument is pushed. *)
LEMMA WindowRead ==
  ASSUME TypeOK, WindowsHold, at \in Windowed, NEW a \in DOMAIN Plan[at].args
  PROVE  LET b == Pushed(at, a)
             child == Plan[at].args[a]
             n == Len(past)
         IN  /\ b \in Ring(at)
             /\ Holds(b, Append([t \in 1..n |-> past[t][child]], cur[child]))
             /\ \A k \in 0..Plan[at].hi :
                  /\ k < b.len <=> k < n + 1
                  /\ k < n + 1 => Ago(b, k) = Append(past, cur)[n + 1 - k][child]
<1> DEFINE b == Pushed(at, a)
           child == Plan[at].args[a]
           n == Len(past)
           s == [t \in 1..n |-> past[t][child]]
           c == Capacity(at)
<1>1. /\ at \in Nodes /\ child \in Nodes /\ a \in 1..2 /\ c \in Nat \ {0}
      /\ Ring(at) = RingOf(c) /\ c = Plan[at].hi + 1 /\ Plan[at].hi \in Nat
  <2>1. at \in Nodes /\ a \in 1..2
    BY WindowedFacts
  <2>2. child \in Nodes /\ c \in Nat \ {0} /\ Ring(at) = RingOf(c) /\ Plan[at].hi \in Nat
    BY <2>1, NodeFacts
  <2>3. QED
    BY <2>1, <2>2 DEF Capacity
<1>2. /\ cur[child] \in Int /\ n \in Nat /\ past \in Seq([Nodes -> Int])
      /\ cur \in [Nodes -> Int] /\ ring[at][a] \in RingOf(c)
  <2>1. ring[at][a] \in Ring(at)
    BY <1>1 DEF TypeOK
  <2>2. cur \in [Nodes -> Int] /\ past \in Seq([Nodes -> Int])
    BY DEF TypeOK
  <2>3. QED
    BY <1>1, <2>1, <2>2
<1>3. s \in Seq(Int) /\ Len(s) = n
  <2>1. \A t \in 1..n : past[t][child] \in Int
    BY <1>1, <1>2
  <2>2. QED
    BY <2>1, <1>2
<1>4. Holds(ring[at][a], s)
  <2>1. ~(at > at)
    BY <1>1, NodeFacts
  <2>2. QED
    BY <2>1 DEF WindowsHold, Fed
<1>5. b \in RingOf(c) /\ Holds(b, Append(s, cur[child]))
  BY <1>1, <1>2, <1>3, <1>4, PushHolds DEF Pushed, Arg
<1>6. Len(Append(s, cur[child])) = n + 1
  BY <1>2, <1>3
<1>7. b.cap = c /\ b.len = IF n + 1 < c THEN n + 1 ELSE c
  BY <1>5, <1>6 DEF RingOf, Holds
<1> HIDE DEF b, s
<1>8. ASSUME NEW k \in 0..Plan[at].hi
      PROVE  /\ k < b.len <=> k < n + 1
             /\ k < n + 1 => Ago(b, k) = Append(past, cur)[n + 1 - k][child]
  <2>1. k < b.len <=> k < n + 1
    BY <1>1, <1>2, <1>7
  <2>2. ASSUME k < n + 1 PROVE Ago(b, k) = Append(past, cur)[n + 1 - k][child]
    <3>1. k \in 0..(b.len - 1)
      BY <2>1, <2>2, <1>1, <1>2, <1>7
    <3>2. Ago(b, k) = Append(s, cur[child])[n + 1 - k]
      <4> DEFINE S == Append(s, cur[child])
      <4>1. Len(S) = n + 1 /\ \A j \in 0..(b.len - 1) : Ago(b, j) = S[Len(S) - j]
        BY <1>5, <1>6 DEF Holds
      <4> HIDE DEF S
      <4>2. Ago(b, k) = S[n + 1 - k]
        BY <3>1, <4>1
      <4>3. QED
        BY <4>2 DEF S
    <3>3. CASE k = 0
      BY <3>2, <3>3, <1>2, <1>3 DEF s
    <3>4. CASE k > 0
      <4>1. n + 1 - k \in 1..n
        BY <2>2, <3>4, <1>1, <1>2
      <4>2. QED
        BY <3>2, <4>1, <1>2, <1>3 DEF s
    <3>5. k = 0 \/ k > 0
      BY <1>1
    <3>6. QED
      BY <3>3, <3>4, <3>5
  <2>3. QED
    BY <2>1, <2>2
<1>9. QED
  BY <1>1, <1>5, <1>8 DEF b, s

(* The same, for the reductions. *)
LEMMA WindowReads ==
  ASSUME TypeOK, WindowsHold, at \in Windowed, NEW a \in DOMAIN Plan[at].args
  PROVE  \A k \in 0..Plan[at].hi :
            /\ k < Pushed(at, a).len <=> k < Len(past) + 1
            /\ k < Len(past) + 1 =>
                  Ago(Pushed(at, a), k) = Append(past, cur)[Len(past) + 1 - k][Plan[at].args[a]]
BY WindowRead

(* Evaluating a node gives it the meaning its arguments' histories have.   *)
LEMMA ValueIsMeaning ==
  ASSUME TypeOK, WindowsHold, at \in Nodes
  PROVE  Value(at) = Meaning(at, Len(past) + 1, Append(past, cur), heard)
<1> DEFINE n == Plan[at]
           t == Len(past) + 1
           h == Append(past, cur)
           W == {k \in n.lo..n.hi : k < t}
<1>1. /\ t \in Nat \ {0} /\ h[t] = cur /\ t = Len(heard) /\ t - 0 = t
      /\ n.lo \in Nat /\ n.hi \in Nat /\ W \subseteq 0..n.hi
  <2>1. Len(past) \in Nat /\ past \in Seq([Nodes -> Int])
    BY DEF TypeOK
  <2>2. at # 0
    BY NodeFacts
  <2>3. n.lo \in Nat /\ n.hi \in Nat
    BY NodeFacts
  <2>4. QED
    BY <2>1, <2>2, <2>3 DEF TypeOK
<1>2. \A a \in DOMAIN n.args : h[t - 0][n.args[a]] = Arg(at, a)
  BY <1>1 DEF Arg
<1>3. n.op \in Ops
  BY NodeFacts
<1>4. CASE n.op = "predicate"
  BY <1>1, <1>4 DEF Meaning, Value, reading
<1>5. CASE n.op = "not"
  <2>1. 1 \in DOMAIN n.args
    BY <1>5, NodeFacts
  <2>2. QED
    BY <2>1, <1>2, <1>5 DEF Meaning, Value
<1>6. CASE n.op \in {"and", "or"}
  <2>1. {h[t - 0][n.args[a]] : a \in DOMAIN n.args} = Args(at)
    BY <1>2 DEF Args
  <2>2. QED
    BY <2>1, <1>6 DEF Meaning, Value
<1>7. CASE n.op \in {"always", "eventually"}
  <2> DEFINE b == Pushed(at, 1)
  <2>1. 1 \in DOMAIN n.args /\ at \in Windowed
    BY <1>7, NodeFacts DEF Windowed
  <2>2. \A k \in 0..n.hi : /\ k < b.len <=> k < t
                           /\ k < t => Ago(b, k) = h[t - k][n.args[1]]
    BY <2>1, WindowReads
  <2> HIDE DEF b
  <2>3. {k \in n.lo..n.hi : k < b.len} = W
    BY <2>2, <1>1
  <2>4. {Ago(b, k) : k \in W} = {h[t - k][n.args[1]] : k \in W}
    BY <2>2, <1>1
  <2>5. Recent(b, n.lo, n.hi) = {h[t - k][n.args[1]] : k \in W}
    BY <2>3, <2>4 DEF Recent
  <2>6. QED
    BY <2>5, <1>7 DEF Meaning, Value, b
<1>8. CASE n.op = "until"
  <2> DEFINE phi == Pushed(at, 1)
             psi == Pushed(at, 2)
  <2>1. 1 \in DOMAIN n.args /\ 2 \in DOMAIN n.args /\ at \in Windowed
    BY <1>8, NodeFacts DEF Windowed
  <2>2. \A k \in 0..n.hi : /\ k < phi.len <=> k < t
                           /\ k < t => Ago(phi, k) = h[t - k][n.args[1]]
    BY <2>1, WindowReads
  <2>3. \A k \in 0..n.hi : /\ k < psi.len <=> k < t
                           /\ k < t => Ago(psi, k) = h[t - k][n.args[2]]
    BY <2>1, WindowReads
  <2> HIDE DEF phi, psi
  <2>4. {k \in n.lo..n.hi : k < psi.len} = W
    BY <2>3, <1>1
  <2> DEFINE G(k) == Least({Ago(psi, k)} \cup Recent(phi, 0, k - 1))
             H(k) == Least({h[t - k][n.args[2]]} \cup {h[t - j][n.args[1]] : j \in 0..(k - 1)})
  <2>5. ASSUME NEW k \in W PROVE G(k) = H(k)
    <3>1. k \in 0..n.hi /\ k < t /\ \A j \in 0..(k - 1) : j \in 0..n.hi /\ j < t
      BY <1>1
    <3>2. {j \in 0..(k - 1) : j < phi.len} = 0..(k - 1)
      BY <3>1, <2>2
    <3>3. {Ago(phi, j) : j \in 0..(k - 1)} = {h[t - j][n.args[1]] : j \in 0..(k - 1)}
      BY <3>1, <2>2
    <3>4. Recent(phi, 0, k - 1) = {h[t - j][n.args[1]] : j \in 0..(k - 1)}
      BY <3>2, <3>3 DEF Recent
    <3>5. Ago(psi, k) = h[t - k][n.args[2]]
      BY <3>1, <2>3
    <3>6. QED
      BY <3>4, <3>5
  <2>6. {G(k) : k \in W} = {H(k) : k \in W}
    BY <2>5
  <2>7. Until(phi, psi, n.lo, n.hi) = Greatest({G(k) : k \in W})
    BY <2>4 DEF Until
  <2>8. Value(at) = Until(phi, psi, n.lo, n.hi)
    BY <1>8 DEF Value, phi, psi
  <2>9. Meaning(at, t, h, heard) = Greatest({H(k) : k \in W})
    BY <1>8 DEF Meaning
  <2>10. QED
    BY <2>6, <2>7, <2>8, <2>9
<1>9. QED
  BY <1>3, <1>4, <1>5, <1>6, <1>7, <1>8 DEF Ops

LEMMA ValueType ==
  ASSUME TypeOK, WindowsHold, at \in Nodes
  PROVE  Value(at) \in Int
<1> DEFINE n == Plan[at]
<1>1. n.op \in Ops /\ n.lo \in Nat /\ n.hi \in Nat /\ n.atom \in Atoms
  BY NodeFacts
<1>2. \A a \in DOMAIN n.args : Arg(at, a) \in Int
  BY NodeFacts DEF TypeOK, Arg
<1>3. CASE n.op = "predicate"
  <2>1. Len(heard) = Len(past) + 1 /\ heard \in Seq([Atoms -> Margins]) /\ Len(past) \in Nat
    BY NodeFacts DEF TypeOK
  <2>2. reading \in [Atoms -> Margins]
    BY <2>1 DEF reading
  <2>3. QED
    BY <2>2, <1>1, <1>3, PlanAssumption DEF Value
<1>4. CASE n.op = "not"
  <2>1. Arg(at, 1) \in Int
    BY <1>2, <1>4, NodeFacts
  <2>2. QED
    BY <2>1, <1>4 DEF Value
<1>5. CASE n.op \in {"and", "or"}
  <2> DEFINE f == [a \in DOMAIN n.args |-> Arg(at, a)]
  <2>1. DOMAIN n.args = 1..Len(n.args) /\ Len(n.args) \in Nat
    BY NodeFacts
  <2>2. IsFiniteSet({f[a] : a \in DOMAIN n.args})
    <3>1. IsFiniteSet(DOMAIN n.args)
      BY <2>1, FS_Interval
    <3>2. QED
      BY <3>1, FiniteImage
  <2>3. {f[a] : a \in DOMAIN n.args} = Args(at)
    BY DEF Args
  <2>4. Args(at) \in SUBSET Int
    BY <1>2 DEF Args
  <2>5. Least(Args(at)) \in Int /\ Greatest(Args(at)) \in Int
    BY <2>2, <2>3, <2>4, Extremes
  <2>6. QED
    BY <2>5, <1>5 DEF Value
<1>6. CASE n.op \in {"always", "eventually", "until"}
  <2>1. at \in Windowed
    BY <1>6 DEF Windowed
  <2>2. ASSUME NEW a \in DOMAIN n.args, NEW lo \in Nat, NEW hi \in Int
        PROVE  Recent(Pushed(at, a), lo, hi) \in SUBSET Int /\ IsFiniteSet(Recent(Pushed(at, a), lo, hi))
    <3> DEFINE b == Pushed(at, a)
               K == {k \in lo..hi : k < b.len}
               f == [k \in K |-> Ago(b, k)]
    <3>1. b \in RingOf(Capacity(at)) /\ Capacity(at) \in Nat \ {0}
      BY <2>1, WindowRead, NodeFacts
    <3> HIDE DEF b
    <3>2. ASSUME NEW k \in K PROVE Ago(b, k) \in Int
      <4>1. /\ b.cap \in Nat \ {0} /\ b.data \in [0..(b.cap - 1) -> Int]
            /\ b.head \in 0..(b.cap - 1) /\ k < b.cap /\ k \in Nat
        BY <3>1 DEF RingOf
      <4>2. PICK x \in Nat : x = b.head + b.cap - 1 - k
        BY <4>1
      <4>3. x % b.cap \in 0..(b.cap - 1)
        BY <4>1, Wrap
      <4>4. QED
        BY <4>1, <4>2, <4>3 DEF Ago
    <3>3. IsFiniteSet(K)
      <4>1. IsFiniteSet(lo..hi)
        BY FS_Interval
      <4>2. K \in SUBSET (lo..hi)
        OBVIOUS
      <4>3. QED
        BY <4>1, <4>2, FS_Subset
    <3>4. IsFiniteSet({f[k] : k \in K})
      BY <3>3, FiniteImage
    <3>5. {f[k] : k \in K} = Recent(b, lo, hi)
      BY DEF Recent
    <3>6. Recent(b, lo, hi) \in SUBSET Int
      BY <3>2 DEF Recent
    <3>7. QED
      BY <3>4, <3>5, <3>6 DEF b
  <2>3. CASE n.op \in {"always", "eventually"}
    <3>1. 1 \in DOMAIN n.args
      BY <2>3, NodeFacts
    <3>2. /\ Recent(Pushed(at, 1), n.lo, n.hi) \in SUBSET Int
          /\ IsFiniteSet(Recent(Pushed(at, 1), n.lo, n.hi))
      BY <3>1, <2>2, <1>1
    <3>3. /\ Least(Recent(Pushed(at, 1), n.lo, n.hi)) \in Int
          /\ Greatest(Recent(Pushed(at, 1), n.lo, n.hi)) \in Int
      BY <3>2, Extremes
    <3>4. QED
      BY <3>3, <2>3 DEF Value
  <2>4. CASE n.op = "until"
    <3> DEFINE phi == Pushed(at, 1)
               psi == Pushed(at, 2)
               K == {k \in n.lo..n.hi : k < psi.len}
               G(k) == Least({Ago(psi, k)} \cup Recent(phi, 0, k - 1))
               f == [k \in K |-> G(k)]
    <3>1. 1 \in DOMAIN n.args /\ 2 \in DOMAIN n.args
      BY <2>4, NodeFacts
    <3>2. Recent(psi, n.lo, n.hi) \in SUBSET Int
      BY <3>1, <2>2, <1>1
    <3>3. ASSUME NEW k \in K PROVE G(k) \in Int
      <4>1. Ago(psi, k) \in Recent(psi, n.lo, n.hi)
        BY DEF Recent
      <4>2. Ago(psi, k) \in Int /\ k \in Int
        BY <4>1, <3>2, <1>1
      <4>3. Recent(phi, 0, k - 1) \in SUBSET Int /\ IsFiniteSet(Recent(phi, 0, k - 1))
        BY <3>1, <2>2, <4>2
      <4>4. /\ {Ago(psi, k)} \cup Recent(phi, 0, k - 1) \in SUBSET Int
            /\ IsFiniteSet({Ago(psi, k)} \cup Recent(phi, 0, k - 1))
        BY <4>2, <4>3, FS_AddElement
      <4>5. QED
        BY <4>4, Extremes
    <3>4. IsFiniteSet(K)
      <4>1. IsFiniteSet(n.lo..n.hi)
        <5>1. n.lo \in Int /\ n.hi \in Int
          BY <1>1
        <5>2. QED
          BY <5>1, FS_Interval
      <4>2. K \in SUBSET (n.lo..n.hi)
        OBVIOUS
      <4>3. QED
        BY <4>1, <4>2, FS_Subset
    <3>5. IsFiniteSet({f[k] : k \in K})
      BY <3>4, FiniteImage
    <3>6. {f[k] : k \in K} = {G(k) : k \in K}
      OBVIOUS
    <3>7. {G(k) : k \in K} \in SUBSET Int
      BY <3>3
    <3>8. Greatest({G(k) : k \in K}) \in Int
      BY <3>5, <3>6, <3>7, Extremes
    <3>9. Value(at) = Until(phi, psi, n.lo, n.hi)
      BY <2>4 DEF Value
    <3>10. QED
      BY <3>8, <3>9 DEF Until
  <2>5. QED
    BY <2>3, <2>4, <1>6
<1>7. QED
  BY <1>1, <1>3, <1>4, <1>5, <1>6 DEF Ops

-----------------------------------------------------------------------------
(* The inductive invariant. *)

(* The nodes evaluated at this tick have their meaning. *)
Evaluated ==
  at > 0 => \A i \in Nodes :
              i < at => cur[i] = Meaning(i, Len(past) + 1, Append(past, cur), heard)

(* prev_root and the verdict are those of the last finished tick. *)
Trend ==
  /\ prev_root = IF past = <<>> THEN NoRoot ELSE past[Len(past)][Root]
  /\ verdict.predicted <=>
       /\ Len(past) >= 2 /\ past[Len(past)][Root] >= 0
       /\ Falling(past[Len(past) - 1][Root], past[Len(past)][Root])

IInv == TypeOK /\ WindowsHold /\ Evaluated /\ MatchesSemantics /\ Trend

LEMMA InitInv == Init => IInv
<1> SUFFICES ASSUME Init PROVE IInv
  OBVIOUS
<1>1. TypeOK
  <2>1. \A i \in Nodes : \A a \in 1..2 : ring[i][a] \in Ring(i)
    BY NodeFacts, EmptyHolds DEF Init
  <2>2. cur \in [Nodes -> Int]
    BY DEF Init
  <2>3. at \in 0..(Len(Plan) + 1)
    BY PlanAssumption DEF Init
  <2>4. QED
    BY <2>1, <2>2, <2>3 DEF Init, TypeOK
<1>2. WindowsHold
  <2>1. ASSUME NEW i \in Windowed, NEW a \in DOMAIN Plan[i].args
        PROVE  Holds(ring[i][a], Fed(i, a))
    <3>1. i \in Nodes /\ a \in 1..2
      BY <2>1, WindowedFacts
    <3>2. ring[i][a] = Empty(Capacity(i)) /\ Capacity(i) \in Nat \ {0} /\ ~(at > i)
      BY <3>1, NodeFacts DEF Init
    <3>3. Fed(i, a) = <<>>
      BY <3>2 DEF Init, Fed
    <3>4. QED
      BY <3>2, <3>3, EmptyHolds
  <2>2. QED
    BY <2>1 DEF WindowsHold
<1>3. QED
  BY <1>1, <1>2 DEF Init, IInv, Evaluated, MatchesSemantics, Trend

LEMMA TypeStep == TypeOK /\ WindowsHold /\ [Next]_vars => TypeOK'
<1> SUFFICES ASSUME TypeOK, WindowsHold, [Next]_vars PROVE TypeOK'
  OBVIOUS
<1>0. Len(Plan) \in Nat /\ Len(past) \in Nat /\ Len(heard) \in Nat
  BY PlanAssumption DEF TypeOK
<1>1. ASSUME NEW r \in [Atoms -> Margins], Begin(r) PROVE TypeOK'
  BY <1>0, <1>1 DEF TypeOK, Begin
<1>2. CASE EvalNode
  <2>1. cur' \in [Nodes -> Int]
    BY <1>2, ValueType DEF TypeOK, EvalNode
  <2>2. ASSUME NEW i \in Nodes, NEW a \in 1..2 PROVE ring'[i][a] \in Ring(i)
    <3>1. CASE i = at /\ at \in Windowed /\ a \in DOMAIN Plan[at].args
      <4>1. Pushed(at, a) \in Ring(at)
        BY <3>1, WindowRead
      <4>2. ring'[i][a] = Pushed(at, a)
        BY <1>2, <3>1 DEF EvalNode, TypeOK
      <4>3. QED
        BY <3>1, <4>1, <4>2
    <3>2. CASE ~(i = at /\ at \in Windowed /\ a \in DOMAIN Plan[at].args)
      <4>1. ring'[i][a] = ring[i][a]
        BY <1>2, <3>2 DEF EvalNode, TypeOK
      <4>2. QED
        BY <4>1 DEF TypeOK
    <3>3. QED
      BY <3>1, <3>2
  <2>3. at' \in 0..(Len(Plan) + 1) /\ at # 0 /\ at' # 0
    BY <1>0, <1>2, NodeFacts DEF EvalNode, Nodes
  <2>4. DOMAIN ring' = Nodes
    BY <1>2 DEF TypeOK, EvalNode
  <2>5. QED
    BY <2>1, <2>2, <2>3, <2>4, <1>2 DEF TypeOK, EvalNode, Ring
<1>3. CASE Conclude
  <2>1. past' \in Seq([Nodes -> Int]) /\ Len(past') = Len(past) + 1
    BY <1>3 DEF TypeOK, Conclude
  <2>2. Root \in Nodes
    BY PlanAssumption DEF Root, Nodes
  <2>3. at' = 0 /\ at # 0 /\ 0 \in 0..(Len(Plan) + 1)
    BY <1>0, <1>3 DEF Conclude
  <2>4. QED
    BY <1>3, <2>1, <2>2, <2>3 DEF TypeOK, Conclude, Violated, Predicted, Falling, Ring
<1>4. CASE UNCHANGED vars
  BY <1>4 DEF TypeOK, vars, Ring
<1>5. QED
  BY <1>1, <1>2, <1>3, <1>4 DEF Next

LEMMA WindowsStep == TypeOK /\ WindowsHold /\ [Next]_vars => WindowsHold'
<1> SUFFICES ASSUME TypeOK, WindowsHold, [Next]_vars,
                    NEW i \in Windowed, NEW a \in DOMAIN Plan[i].args
             PROVE  Holds(ring[i][a], Fed(i, a))'
  BY DEF WindowsHold
<1> DEFINE child == Plan[i].args[a]
           earlier == [t \in 1..Len(past) |-> past[t][child]]
<1>0. /\ i \in Nodes /\ i \in Nat /\ i >= 1 /\ i <= Len(Plan) /\ a \in 1..2
      /\ child \in Nodes /\ child < i
      /\ Len(past) \in Nat /\ Len(Plan) \in Nat /\ past \in Seq([Nodes -> Int])
      /\ at \in Nat
  <2>1. i \in Nodes /\ a \in 1..2
    BY WindowedFacts
  <2>2. child \in Nodes /\ child < i
    BY <2>1, NodeFacts
  <2>3. Len(Plan) \in Nat
    BY PlanAssumption
  <2>4. i \in Nat /\ i >= 1 /\ i <= Len(Plan)
    BY <2>1, <2>3 DEF Nodes
  <2>5. Len(past) \in Nat /\ past \in Seq([Nodes -> Int]) /\ at \in Nat
    BY <2>3 DEF TypeOK
  <2>6. QED
    BY <2>1, <2>2, <2>3, <2>4, <2>5
<1>h. Holds(ring[i][a], Fed(i, a))
  BY DEF WindowsHold
<1>1. ASSUME NEW r \in [Atoms -> Margins], Begin(r) PROVE Holds(ring[i][a], Fed(i, a))'
  <2>1. ~(at > i) /\ ~(at' > i)
    BY <1>0, <1>1 DEF Begin
  <2>2. Fed(i, a)' = Fed(i, a) /\ ring' = ring
    BY <1>1, <2>1 DEF Begin, Fed
  <2>3. QED
    BY <1>h, <2>2 DEF Holds
<1>2. CASE EvalNode
  <2>1. CASE at = i
    <3>1. Holds(Pushed(at, a), Append(earlier, cur[child]))
      BY <2>1, WindowRead
    <3>2. ring'[i][a] = Pushed(at, a)
      BY <1>0, <1>2, <2>1 DEF EvalNode, TypeOK
    <3>3. Fed(i, a)' = Append(earlier, cur[child])
      <4>1. at' > i /\ past' = past /\ cur'[child] = cur[child]
        BY <1>0, <1>2, <2>1 DEF EvalNode, TypeOK
      <4>2. QED
        BY <4>1 DEF Fed
    <3>4. QED
      BY <3>1, <3>2, <3>3 DEF Holds
  <2>2. CASE at # i
    <3>1. ring'[i][a] = ring[i][a]
      BY <1>0, <1>2, <2>2 DEF EvalNode, TypeOK
    <3>2. Fed(i, a)' = Fed(i, a)
      <4>1. (at' > i <=> at > i) /\ past' = past /\ (at > i => cur'[child] = cur[child])
        BY <1>0, <1>2, <2>2 DEF EvalNode, TypeOK
      <4>2. QED
        BY <4>1 DEF Fed
    <3>3. QED
      BY <1>h, <3>1, <3>2 DEF Holds
  <2>3. QED
    BY <2>1, <2>2
<1>3. CASE Conclude
  <2>1. at > i /\ ~(at' > i) /\ ring' = ring /\ past' = Append(past, cur) /\ cur \in [Nodes -> Int]
    BY <1>0, <1>3 DEF Conclude, TypeOK
  <2>2. Fed(i, a) = Append(earlier, cur[child])
    BY <2>1 DEF Fed
  <2>3. Fed(i, a)' = [t \in 1..(Len(past) + 1) |-> Append(past, cur)[t][child]]
    BY <2>1, <1>0 DEF Fed
  <2>4. Append(earlier, cur[child]) = [t \in 1..(Len(past) + 1) |-> Append(past, cur)[t][child]]
    <3>1. earlier \in Seq(Int) /\ Len(earlier) = Len(past)
      <4>1. \A t \in 1..Len(past) : past[t][child] \in Int
        <5>1. \A t \in 1..Len(past) : past[t] \in [Nodes -> Int]
          BY <1>0
        <5>2. QED
          BY <5>1, <1>0
      <4>2. QED
        BY <4>1, <1>0
    <3>2. cur[child] \in Int
      BY <1>0, <2>1
    <3> HIDE DEF earlier
    <3>3. Append(earlier, cur[child]) =
            [t \in 1..(Len(past) + 1) |-> IF t = Len(past) + 1 THEN cur[child] ELSE earlier[t]]
      BY <3>1, <3>2
    <3>4. ASSUME NEW t \in 1..(Len(past) + 1)
          PROVE  (IF t = Len(past) + 1 THEN cur[child] ELSE earlier[t]) = Append(past, cur)[t][child]
      BY <1>0, <2>1 DEF earlier
    <3>5. QED
      BY <3>3, <3>4
  <2>5. QED
    BY <1>h, <2>1, <2>2, <2>3, <2>4 DEF Holds
<1>4. CASE UNCHANGED vars
  BY <1>h, <1>4 DEF vars, Holds, Fed
<1>5. QED
  BY <1>1, <1>2, <1>3, <1>4 DEF Next

LEMMA EvaluatedStep == TypeOK /\ WindowsHold /\ Evaluated /\ [Next]_vars => Evaluated'
<1> SUFFICES ASSUME TypeOK, WindowsHold, Evaluated, [Next]_vars,
                    at' > 0, NEW i \in Nodes, i < at'
             PROVE  cur'[i] = Meaning(i, Len(past') + 1, Append(past', cur'), heard')
  BY DEF Evaluated, Meaning
<1>0. i \in Nat /\ i >= 1 /\ at \in Nat /\ Len(past) \in Nat /\ past \in Seq([Nodes -> Int])
      /\ cur \in [Nodes -> Int]
  <2>1. Len(Plan) \in Nat
    BY PlanAssumption
  <2>2. QED
    BY <2>1, NodeFacts DEF TypeOK
<1>1. ASSUME NEW r \in [Atoms -> Margins], Begin(r) PROVE FALSE
  BY <1>0, <1>1 DEF Begin
<1>2. CASE EvalNode
  <2>1. past' = past /\ heard' = heard /\ at \in Nodes /\ at' = at + 1
    BY <1>2 DEF EvalNode
  <2> DEFINE t == Len(past) + 1
  <2>2. Append(past, cur)[t] = cur /\ Append(past, cur')[t] = cur'
    BY <1>0
  <2>3. \A j \in Nodes : j # at => cur'[j] = cur[j]
    BY <1>2 DEF EvalNode, TypeOK
  <2>4. i <= at /\ at > 0
    BY <1>0, <2>1, NodeFacts
  <2>5. cur'[i] = Meaning(i, t, Append(past, cur), heard)
    <3>1. CASE i = at
      <4>1. cur'[i] = Value(at)
        BY <1>2, <3>1 DEF EvalNode, TypeOK
      <4>2. QED
        BY <3>1, <4>1, ValueIsMeaning, <2>1
    <3>2. CASE i # at
      <4>1. i < at /\ at > 0
        BY <1>0, <2>1, <2>4, <3>2
      <4>2. cur[i] = Meaning(i, t, Append(past, cur), heard)
        BY <4>1 DEF Evaluated
      <4>3. QED
        BY <2>3, <3>2, <4>2
    <3>3. QED
      BY <3>1, <3>2
  <2>6. Meaning(i, t, Append(past, cur), heard) = Meaning(i, t, Append(past, cur'), heard)
    <3>1. ASSUME NEW k \in 0..(t - 1), NEW a \in DOMAIN Plan[i].args
          PROVE  Append(past, cur)[t - k][Plan[i].args[a]] = Append(past, cur')[t - k][Plan[i].args[a]]
      <4>1. CASE k = 0
        <5>1. Plan[i].args[a] \in Nodes /\ Plan[i].args[a] < i
          BY NodeFacts
        <5>2. Plan[i].args[a] # at
          BY <5>1, <2>1, <2>4, NodeFacts
        <5>3. cur'[Plan[i].args[a]] = cur[Plan[i].args[a]]
          BY <2>3, <5>1, <5>2
        <5>4. QED
          BY <5>3, <2>2, <4>1, <1>0
      <4>2. CASE k > 0
        <5>1. t - k \in 1..Len(past)
          BY <4>2, <1>0
        <5>2. QED
          BY <5>1, <1>0
      <4>3. QED
        BY <4>1, <4>2
    <3>2. t \in Nat \ {0}
      BY <1>0
    <3>3. PICK g : g = Append(past, cur)
      OBVIOUS
    <3>4. PICK h : h = Append(past, cur')
      OBVIOUS
    <3>5. PICK u \in Nat \ {0} : u = t
      BY <3>2
    <3>6. \A k \in 0..(u - 1) : \A a \in DOMAIN Plan[i].args :
             g[u - k][Plan[i].args[a]] = h[u - k][Plan[i].args[a]]
      BY <3>1, <3>3, <3>4, <3>5
    <3>7. Meaning(i, u, g, heard) = Meaning(i, u, h, heard)
      BY <3>6, MeaningLocal
    <3>8. QED
      BY <3>3, <3>4, <3>5, <3>7
  <2>7. QED
    BY <2>1, <2>5, <2>6
<1>3. CASE Conclude
  BY <1>3 DEF Conclude
<1>4. CASE UNCHANGED vars
  BY <1>4 DEF vars, Evaluated
<1>5. QED
  BY <1>1, <1>2, <1>3, <1>4 DEF Next

LEMMA SemanticsStep ==
  TypeOK /\ Evaluated /\ MatchesSemantics /\ [Next]_vars => MatchesSemantics'
<1> SUFFICES ASSUME TypeOK, Evaluated, MatchesSemantics, [Next]_vars,
                    NEW t \in 1..Len(past'), NEW i \in Nodes
             PROVE  past'[t][i] = Meaning(i, t, past', heard')
  BY DEF MatchesSemantics, Meaning
<1>0. Len(past) \in Nat /\ past \in Seq([Nodes -> Int]) /\ cur \in [Nodes -> Int]
      /\ Len(heard) \in Nat /\ heard \in Seq([Atoms -> Margins])
      /\ Len(heard) >= Len(past)
  BY DEF TypeOK
<1>1. ASSUME NEW r \in [Atoms -> Margins], Begin(r) PROVE past'[t][i] = Meaning(i, t, past', heard')
  <2>1. past' = past /\ heard' = Append(heard, r)
    BY <1>1 DEF Begin
  <2>2. heard'[t] = heard[t] /\ t \in 1..Len(past) /\ t \in Nat \ {0}
    BY <1>0, <2>1
  <2>3. past[t][i] = Meaning(i, t, past, heard)
    BY <2>2 DEF MatchesSemantics
  <2>4. Meaning(i, t, past, heard) = Meaning(i, t, past, heard')
    BY <2>2, MeaningLocal
  <2>5. QED
    BY <2>1, <2>3, <2>4
<1>2. CASE EvalNode
  BY <1>2 DEF EvalNode, MatchesSemantics
<1>3. CASE Conclude
  <2>1. past' = Append(past, cur) /\ heard' = heard /\ at = Len(Plan) + 1
    BY <1>3 DEF Conclude
  <2>2. CASE t = Len(past) + 1
    <3>1. i < at /\ at > 0
      BY <2>1, PlanAssumption DEF Nodes
    <3>2. cur[i] = Meaning(i, t, Append(past, cur), heard)
      BY <3>1, <2>2 DEF Evaluated
    <3>3. QED
      BY <3>2, <2>1, <2>2, <1>0
  <2>3. CASE t # Len(past) + 1
    <3>1. t \in 1..Len(past) /\ t \in Nat \ {0}
      BY <2>1, <2>3, <1>0
    <3>2. past'[t] = past[t] /\ past[t][i] = Meaning(i, t, past, heard)
      BY <2>1, <3>1, <1>0 DEF MatchesSemantics
    <3>3. ASSUME NEW k \in 0..(t - 1)
          PROVE  past[t - k] = past'[t - k]
      <4>1. t - k \in 1..Len(past)
        BY <3>1, <1>0
      <4>2. QED
        BY <4>1, <2>1, <1>0
    <3>4. Meaning(i, t, past, heard) = Meaning(i, t, past', heard)
      BY <3>1, <3>3, MeaningLocal
    <3>5. QED
      BY <3>2, <3>4, <2>1
  <2>4. QED
    BY <2>2, <2>3
<1>4. CASE UNCHANGED vars
  BY <1>4 DEF vars, MatchesSemantics
<1>5. QED
  BY <1>1, <1>2, <1>3, <1>4 DEF Next

LEMMA Appended ==
  ASSUME NEW S, NEW e \in S, NEW h \in Seq(S)
  PROVE  /\ Len(Append(h, e)) = Len(h) + 1 /\ Append(h, e) # <<>>
         /\ Append(h, e)[Len(h) + 1] = e
<1>1. Len(Append(h, e)) = Len(h) + 1 /\ Len(h) \in Nat
  OBVIOUS
<1>2. Append(h, e)[Len(h) + 1] = e
  OBVIOUS
<1>3. Append(h, e) # <<>>
  BY <1>1
<1>4. QED
  BY <1>1, <1>2, <1>3

LEMMA TrendStep == TypeOK /\ Trend /\ [Next]_vars => Trend'
<1> SUFFICES ASSUME TypeOK, Trend, [Next]_vars PROVE Trend'
  OBVIOUS
<1>0. Len(past) \in Nat /\ past \in Seq([Nodes -> Int]) /\ cur \in [Nodes -> Int]
      /\ Root \in Nodes
  BY PlanAssumption DEF TypeOK, Root, Nodes
<1>1. ASSUME NEW r \in [Atoms -> Margins], Begin(r) PROVE Trend'
  BY <1>1 DEF Begin, Trend
<1>2. CASE EvalNode
  BY <1>2 DEF EvalNode, Trend
<1>3. CASE Conclude
  <2>1. past' = Append(past, cur) /\ prev_root' = cur[Root] /\ verdict'.predicted = Predicted
    BY <1>3 DEF Conclude
  <2>2. Len(past') = Len(past) + 1 /\ past'[Len(past')] = cur /\ past' # <<>>
    BY <2>1, <1>0, Appended
  <2>3. Predicted <=> Len(past') >= 2 /\ cur[Root] >= 0 /\ Falling(past'[Len(past') - 1][Root], cur[Root])
    <3>1. CASE past = <<>>
      <4>1. prev_root = NoRoot /\ Len(past') = 1
        BY <3>1, <2>2 DEF Trend
      <4>2. QED
        BY <4>1 DEF Predicted
    <3>2. CASE past # <<>>
      <4>1. Len(past') >= 2 /\ past'[Len(past') - 1] = past[Len(past)] /\ past[Len(past)] \in [Nodes -> Int]
        BY <2>1, <2>2, <3>2, <1>0
      <4>2. prev_root = past[Len(past)][Root] /\ prev_root \in Int /\ prev_root # NoRoot
        BY <3>2, <4>1, <1>0, PlanAssumption DEF Trend
      <4>3. QED
        BY <4>1, <4>2, <1>0 DEF Predicted, Violated
    <3>3. QED
      BY <3>1, <3>2
  <2>4. QED
    BY <2>1, <2>2, <2>3 DEF Trend
<1>4. CASE UNCHANGED vars
  BY <1>4 DEF vars, Trend
<1>5. QED
  BY <1>1, <1>2, <1>3, <1>4 DEF Next

LEMMA Stretch ==
  ASSUME NEW h \in Nat \ {0}, NEW d \in Int, d > 0
  PROVE  d <= h * d
<1>1. PICK m \in Nat : h = m + 1
  OBVIOUS
<1>2. m * d >= 0
  OBVIOUS
<1>3. h * d = m * d + d
  BY <1>1
<1>4. QED
  BY <1>2, <1>3

(* A fall as steep as the last one reaches zero within one tick. *)
LEMMA WarningFollows == IInv => WarnsBeforeViolation
<1> DEFINE n == Len(past)
           r1 == past[n - 1][Root]
           r2 == past[n][Root]
           v == cur[Root]
<1> SUFFICES ASSUME IInv, n >= 2, v < 0, r2 >= 0, r2 < Infinity, r2 - v <= r1 - r2
             PROVE  verdict.predicted
  BY DEF WarnsBeforeViolation, Violated
<1>1. r1 \in Int /\ r2 \in Int /\ v \in Int /\ Horizon \in Nat \ {0}
  BY PlanAssumption DEF IInv, TypeOK, Root, Nodes
<1>2. r2 < r1 /\ r2 <= r1 - r2
  BY <1>1
<1>3. PICK d \in Int : d = r1 - r2
  BY <1>1
<1>4. r2 <= Horizon * (r1 - r2)
  <2>1. d > 0 /\ r2 <= d
    BY <1>1, <1>2, <1>3
  <2>2. PICK x \in Int : x = r2
    BY <1>1
  <2>3. PICK e \in Int : e = Horizon * d
    BY <1>1
  <2>4. d <= e
    BY <1>1, <2>1, <2>3, Stretch
  <2>5. x <= e
    BY <2>1, <2>2, <2>4
  <2>6. QED
    BY <1>3, <2>2, <2>3, <2>5
<1>5. Falling(r1, r2)
  BY <1>2, <1>4 DEF Falling
<1>6. QED
  BY <1>5 DEF IInv, Trend

-----------------------------------------------------------------------------
(* A signal that does not move. *)

LEMMA MaxIs ==
  ASSUME NEW S \in SUBSET Int, NEW x \in S, \A y \in S : y <= x
  PROVE  Max(S) = x
<1>1. x \in S /\ \A y \in S : x >= y
  OBVIOUS
<1>2. Max(S) \in S /\ Max(S) >= x
  BY <1>1 DEF Max
<1>3. Max(S) \in Int /\ x \in Int /\ Max(S) <= x
  BY <1>2
<1>4. QED
  BY <1>2, <1>3

LEMMA GreatestIs ==
  ASSUME NEW T \in SUBSET Int, NEW b \in T, \A y \in T : y <= b
  PROVE  Greatest(T) = IF b >= -Infinity THEN b ELSE -Infinity
<1> DEFINE x == IF b >= -Infinity THEN b ELSE -Infinity
           S == T \cup {-Infinity}
<1>1. Infinity \in Int
  BY PlanAssumption
<1>2. S \in SUBSET Int /\ x \in S
  BY <1>1
<1>3. \A y \in S : y <= x
  BY <1>1
<1>4. Max(S) = x
  BY <1>2, <1>3, MaxIs
<1>5. QED
  BY <1>4 DEF Greatest

(* Every window reaches down to the tick under way.  With a delay a clause *)
(* has an empty window first, as good as any value, and falls from there.  *)
WindowsBeginNow == \A i \in Windowed : Plan[i].lo = 0

(* The semantics of constant arguments is the same at every tick.  Of the  *)
(* ticks an "until" may look back to, the one under way is then the best.  *)
LEMMA ConstantMeaning ==
  ASSUME TypeOK, WindowsBeginNow, NEW i \in Nodes, Plan[i].op # "predicate",
         NEW t \in 1..Len(past),
         \A a \in DOMAIN Plan[i].args : \A u \in 1..Len(past) :
            past[u][Plan[i].args[a]] = past[1][Plan[i].args[a]]
  PROVE  Meaning(i, t, past, heard) = Meaning(i, 1, past, heard)
<1> DEFINE n == Plan[i]
           c(a) == past[1][n.args[a]]
           W(u) == {k \in n.lo..n.hi : k < u}
<1>1. Len(past) \in Nat /\ t \in Nat /\ 1 \in 1..Len(past)
  BY DEF TypeOK
<1>2. ASSUME NEW u \in 1..Len(past), NEW a \in DOMAIN n.args, NEW k \in 0..(u - 1)
      PROVE  past[u - k][n.args[a]] = c(a)
  <2>1. u - k \in 1..Len(past)
    BY <1>1
  <2>2. QED
    BY <2>1
<1>3. n.op \in Ops \ {"predicate"}
  BY NodeFacts
<1>4. CASE n.op = "not"
  BY <1>1, <1>2, <1>4, NodeFacts DEF Meaning
<1>5. CASE n.op \in {"and", "or"}
  <2>1. ASSUME NEW u \in 1..Len(past)
        PROVE  {past[u - 0][n.args[a]] : a \in DOMAIN n.args} = {c(a) : a \in DOMAIN n.args}
    <3>1. 0 \in 0..(u - 1)
      BY <1>1
    <3>2. QED
      BY <1>2, <3>1
  <2>2. QED
    BY <1>1, <1>5, <2>1 DEF Meaning
<1>6. ASSUME n.op \in {"always", "eventually", "until"}, NEW u \in 1..Len(past)
      PROVE  0 \in W(u) /\ W(u) \subseteq 0..(u - 1)
  BY <1>1, <1>6, NodeFacts DEF WindowsBeginNow, Windowed
<1>7. CASE n.op \in {"always", "eventually"}
  <2>1. 1 \in DOMAIN n.args
    BY <1>7, NodeFacts
  <2>2. ASSUME NEW u \in 1..Len(past) PROVE {past[u - k][n.args[1]] : k \in W(u)} = {c(1)}
    <3> DEFINE ks == W(u)
               f(k) == past[u - k][n.args[1]]
    <3>1. 0 \in ks /\ \A k \in ks : f(k) = c(1)
      BY <1>2, <1>6, <1>7, <2>1, <2>2
    <3> HIDE DEF ks, f
    <3>2. {f(k) : k \in ks} = {c(1)}
      BY <3>1
    <3>3. QED
      BY <3>2 DEF ks, f
  <2>3. QED
    BY <1>1, <1>7, <2>2 DEF Meaning
<1>8. CASE n.op = "until"
  <2>1. 1 \in DOMAIN n.args /\ 2 \in DOMAIN n.args /\ c(1) \in Int /\ c(2) \in Int
    <3>1. 1 \in DOMAIN n.args /\ 2 \in DOMAIN n.args
      BY <1>8, NodeFacts
    <3>2. n.args[1] \in Nodes /\ n.args[2] \in Nodes
      BY <3>1, NodeFacts
    <3>3. past[1] \in [Nodes -> Int]
      BY <1>1 DEF TypeOK
    <3>4. QED
      BY <3>1, <3>2, <3>3
  <2> DEFINE G(u, k) == Least({past[u - k][n.args[2]]} \cup {past[u - j][n.args[1]] : j \in 0..(k - 1)})
             best == Least({c(2)})
  <2>2. /\ Infinity \in Int
        /\ best \in Int /\ Least({c(2), c(1)}) \in Int
        /\ Least({c(2), c(1)}) <= best
    <3>1. IsFiniteSet({c(2)}) /\ IsFiniteSet({c(2), c(1)})
      <4>1. IsFiniteSet({c(2)}) /\ {c(2), c(1)} = {c(2)} \cup {c(1)}
        BY FS_Singleton
      <4>2. QED
        BY <4>1, FS_AddElement
    <3>2. best \in Int /\ Least({c(2), c(1)}) \in Int /\ Infinity \in Int
      BY <2>1, <3>1, Extremes, PlanAssumption
    <3>3. \A y \in {c(2), c(1), Infinity} : Least({c(2), c(1)}) <= y
      <4>1. \E x \in {c(2), c(1), Infinity} : \A y \in {c(2), c(1), Infinity} : x <= y
        BY <2>1, <3>2
      <4>2. {c(2), c(1)} \cup {Infinity} = {c(2), c(1), Infinity}
        OBVIOUS
      <4>3. QED
        BY <4>1, <4>2 DEF Least, Min
    <3>4. best \in {c(2), Infinity}
      <4>1. \E x \in {c(2)} \cup {Infinity} : \A y \in {c(2)} \cup {Infinity} : x <= y
        BY <2>1, <3>2
      <4>2. QED
        BY <4>1 DEF Least, Min
    <3>5. QED
      BY <3>2, <3>3, <3>4
  <2>3. ASSUME NEW u \in 1..Len(past), NEW k \in W(u)
        PROVE  G(u, k) = IF k = 0 THEN best ELSE Least({c(2), c(1)})
    <3>1. k \in 0..(u - 1) /\ 0..(k - 1) \subseteq 0..(u - 1)
      BY <1>1, <1>6, <1>8
    <3>2. past[u - k][n.args[2]] = c(2)
      BY <1>2, <2>1, <3>1
    <3>3. \A j \in 0..(k - 1) : past[u - j][n.args[1]] = c(1)
      BY <1>2, <2>1, <3>1
    <3>4. CASE k = 0
      <4>1. 0..(k - 1) = {}
        BY <3>4
      <4>2. {past[u - k][n.args[2]]} \cup {past[u - j][n.args[1]] : j \in 0..(k - 1)} = {c(2)}
        BY <4>1, <3>2
      <4>3. QED
        BY <4>2, <3>4
    <3>5. CASE k # 0
      <4>1. 0 \in 0..(k - 1)
        BY <3>1, <3>5
      <4>2. {past[u - j][n.args[1]] : j \in 0..(k - 1)} = {c(1)}
        <5> DEFINE J == 0..(k - 1)
                   val(j) == past[u - j][n.args[1]]
        <5>1. 0 \in J /\ \A j \in J : val(j) = c(1)
          BY <4>1, <3>3
        <5> HIDE DEF J, val, c
        <5>2. {val(j) : j \in J} = {c(1)}
          BY <5>1
        <5>3. QED
          BY <5>2 DEF J, val
      <4>3. {past[u - k][n.args[2]]} \cup {past[u - j][n.args[1]] : j \in 0..(k - 1)} = {c(2), c(1)}
        BY <4>2, <3>2
      <4>4. QED
        BY <4>3, <3>5
    <3>6. QED
      BY <3>4, <3>5
  <2>4. ASSUME NEW u \in 1..Len(past)
        PROVE  Greatest({G(u, k) : k \in W(u)}) = IF best >= -Infinity THEN best ELSE -Infinity
    <3> HIDE DEF G, best, c, W
    <3>1. best \in {G(u, k) : k \in W(u)}
      BY <1>6, <1>8, <2>3
    <3>2. ASSUME NEW k \in W(u) PROVE G(u, k) \in Int /\ G(u, k) <= best
      <4>1. G(u, k) = best \/ G(u, k) = Least({c(2), c(1)})
        BY <2>3
      <4>2. QED
        BY <2>2, <4>1
    <3>3. \A y \in {G(u, k) : k \in W(u)} : y \in Int /\ y <= best
      BY <3>2
    <3>4. QED
      BY <3>1, <3>3, GreatestIs
  <2>5. Meaning(i, t, past, heard) = Greatest({G(t, k) : k \in W(t)})
        /\ Meaning(i, 1, past, heard) = Greatest({G(1, k) : k \in W(1)})
    BY <1>8 DEF Meaning
  <2>6. QED
    BY <1>1, <2>4, <2>5
<1>9. QED
  BY <1>3, <1>4, <1>5, <1>7, <1>8 DEF Ops

(* If no atom has moved, no node has: the first one that had would have    *)
(* an argument that had.                                                   *)
LEMMA NothingMoves ==
  ASSUME TypeOK, MatchesSemantics, Steady, WindowsBeginNow
  PROVE  \A i \in Nodes : \A t \in 1..Len(past) : past[t][i] = past[1][i]
<1> DEFINE Moved == {i \in Nodes : \E t \in 1..Len(past) : past[t][i] # past[1][i]}
<1> SUFFICES ASSUME Moved # {} PROVE FALSE
  OBVIOUS
<1>1. Moved \in SUBSET Int /\ IsFiniteSet(Moved)
  <2>1. Moved \subseteq Nodes /\ Nodes = 1..Len(Plan) /\ Len(Plan) \in Nat
    BY PlanAssumption DEF Nodes
  <2>2. QED
    <3>1. IsFiniteSet(1..Len(Plan))
      BY <2>1, FS_Interval
    <3>2. QED
      BY <2>1, <3>1, FS_Subset
<1>2. PICK i \in Moved : \A k \in Moved : i <= k
  BY <1>1, HasLeast
<1>3. PICK t \in 1..Len(past) : past[t][i] # past[1][i]
  OBVIOUS
<1>4. Plan[i].op # "predicate"
  BY <1>3 DEF Steady
<1>5. \A a \in DOMAIN Plan[i].args : Plan[i].args[a] \notin Moved
  <2>1. ASSUME NEW a \in DOMAIN Plan[i].args PROVE Plan[i].args[a] \notin Moved
    <3>1. i \in Nodes
      OBVIOUS
    <3>2. Plan[i].args[a] < i /\ Plan[i].args[a] \in Nat /\ i \in Nat
      BY <3>1, NodeFacts DEF Nodes
    <3>3. QED
      BY <1>2, <3>2
  <2>2. QED
    BY <2>1
<1>6. Meaning(i, t, past, heard) = Meaning(i, 1, past, heard)
  BY <1>4, <1>5, NodeFacts, ConstantMeaning
<1>7. 1 \in 1..Len(past)
  BY <1>3 DEF TypeOK
<1>8. QED
  BY <1>3, <1>6, <1>7 DEF MatchesSemantics

LEMMA SteadinessFollows == ASSUME WindowsBeginNow, IInv PROVE SteadyNeverAlarms
<1> SUFFICES ASSUME Steady, verdict.predicted PROVE FALSE
  BY DEF SteadyNeverAlarms
<1> DEFINE n == Len(past)
<1>1. n \in Nat /\ n >= 2 /\ Falling(past[n - 1][Root], past[n][Root])
  BY DEF IInv, Trend, TypeOK
<1>2. Root \in Nodes /\ n - 1 \in 1..n /\ n \in 1..n
  BY <1>1, PlanAssumption DEF Root, Nodes
<1>3. past[n - 1][Root] = past[n][Root] /\ past[n][Root] \in Int
  <2>1. past[n - 1][Root] = past[1][Root] /\ past[n][Root] = past[1][Root]
    BY <1>2, NothingMoves DEF IInv
  <2>2. QED
    BY <1>2, <2>1 DEF IInv, TypeOK
<1>4. QED
  BY <1>1, <1>3 DEF Falling

LEMMA Invariance == Spec => []IInv
<1>1. IInv /\ [Next]_vars => IInv'
  BY TypeStep, WindowsStep, EvaluatedStep, SemanticsStep, TrendStep DEF IInv
<1>2. QED
  BY InitInv, <1>1, PTL DEF Spec

(* Robustness values stay numbers and buffers keep their capacity: the     *)
(* evaluation of step (monitors.rs:143) never leaves its arrays.           *)
THEOREM TypeCorrect == Spec => []TypeOK
BY Invariance, PTL DEF IInv

(* The ring buffers (monitors.rs:23) hold the most recent values of their  *)
(* argument, for every window and every length of run.                     *)
THEOREM BuffersAreWindows == Spec => []WindowsHold
BY Invariance, PTL DEF IInv

(* Bounded memory computes the bounded past-time semantics of every clause *)
(* (monitors.rs:5-11), whatever its plan.                                  *)
THEOREM EvaluationIsSemantics == Spec => []MatchesSemantics
BY Invariance, PTL DEF IInv

(* A violation no steeper than the trend was predicted, for every clause   *)
(* and every predictive horizon of a tick or more (monitors.rs:155-168).   *)
THEOREM ViolationsAreAnnounced == Spec => []WarnsBeforeViolation
BY Invariance, WarningFollows, PTL

(* No false alarm without a trend (monitors.rs:155-168): on a signal that  *)
(* has never moved no clause whose windows begin at the current tick fires *)
(* early, whatever its plan.                                               *)
THEOREM SteadySignalsAreQuiet == ASSUME WindowsBeginNow PROVE Spec => []SteadyNeverAlarms
BY Invariance, SteadinessFollows, PTL

(* The robustness of "the margin held for the last ticks", from nothing    *)
(* but what was heard: the least margin of the window, clipped to the      *)
(* ticks there have been.  SafetyCore takes its one clause to be this.     *)
MarginsOfWindow(i, t) ==
  {heard[t - k][Plan[Plan[i].args[1]].atom] : k \in {n \in Plan[i].lo..Plan[i].hi : n < t}}

AlwaysIsLeastMargin ==
  \A i \in Nodes : \A t \in 1..Len(past) :
    Plan[i].op = "always" /\ Plan[Plan[i].args[1]].op = "predicate" =>
      past[t][i] = Least(MarginsOfWindow(i, t))

(* An always node over a predicate (monitors.rs:186) has the least of the  *)
(* last margins as its value, at every tick and for every window.          *)
THEOREM WindowsAreLeastMargins == Spec => []AlwaysIsLeastMargin
<1>1. IInv => AlwaysIsLeastMargin
  <2> SUFFICES ASSUME IInv, NEW i \in Nodes, NEW t \in 1..Len(past),
                      Plan[i].op = "always", Plan[Plan[i].args[1]].op = "predicate"
               PROVE  past[t][i] = Least(MarginsOfWindow(i, t))
    BY DEF AlwaysIsLeastMargin
  <2> DEFINE c == Plan[i].args[1]
             W == {k \in Plan[i].lo..Plan[i].hi : k < t}
  <2>1. c \in Nodes /\ Len(past) \in Nat /\ W \subseteq 0..(t - 1)
    <3>1. 1 \in DOMAIN Plan[i].args
      BY NodeFacts
    <3>2. c \in Nodes
      BY <3>1, NodeFacts
    <3>3. Len(past) \in Nat
      BY DEF IInv, TypeOK
    <3>4. Plan[i].lo \in Nat /\ Plan[i].hi \in Nat
      BY NodeFacts
    <3>5. W \subseteq 0..(t - 1)
      BY <3>3, <3>4
    <3>6. QED
      BY <3>2, <3>3, <3>5
  <2>2. ASSUME NEW k \in W PROVE past[t - k][c] = heard[t - k][Plan[c].atom]
    <3>1. t - k \in 1..Len(past)
      BY <2>1
    <3>2. past[t - k][c] = Meaning(c, t - k, past, heard)
      BY <2>1, <3>1 DEF IInv, MatchesSemantics
    <3>3. QED
      BY <3>2 DEF Meaning
  <2>3. {past[t - k][c] : k \in W} = MarginsOfWindow(i, t)
    BY <2>2 DEF MarginsOfWindow
  <2>4. past[t][i] = Meaning(i, t, past, heard)
    BY DEF IInv, MatchesSemantics
  <2>5. Meaning(i, t, past, heard) = Least({past[t - k][c] : k \in W})
    BY DEF Meaning
  <2>6. QED
    BY <2>3, <2>4, <2>5
<1>2. QED
  BY <1>1, Invariance, PTL
=============================================================================
