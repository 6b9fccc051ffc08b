--------------------------- MODULE CloudRunProofs ---------------------------
(* Proofs about CloudRun: for any number of hosts, jobs, subscribers, pods *)
(* and faults, any retry budget and any batch size.                        *)
EXTENDS CloudRun, SequenceTheorems, TLAPS

-----------------------------------------------------------------------------
(* The inductive invariant, one part per owner of state.                   *)

Places == {"submit", "stage", "staged", "launch", "apply", "wait", "collect", "report"} \cup Final
Events == [host : Hosts, job : Jobs, status : Statuses, context : Contexts]
Readers == [at : {"idle", "handle", "ack", "gone"}, next : Nat \ {0}, last : Nat]

HostTypes ==
  /\ job \in [Hosts -> Jobs] /\ backend \in [Hosts -> {"local", "cluster"}]
  /\ pc \in [Hosts -> Places]
  /\ note \in [Hosts -> Statuses \cup {"none"}]
  /\ status \in [Addresses -> Statuses \cup {"none"}]
  /\ faults \in 0..MaxFaults

(* A result in hand is a stored context of the host's own job. *)
ResultsHeld ==
  /\ result \in [Hosts -> Contexts]
  /\ \A h \in Hosts : result[h].exit # "none" => result[h] \in contexts /\ result[h].job = job[h]

(* A pod that has an exit code has stored its context. *)
PodsStored ==
  /\ object \in [Jobs -> {"absent", "active", "succeeded", "failed"}]
  /\ pods \in [Jobs -> Seq(Pods)]
  /\ \A j \in Jobs : Len(pods[j]) <= MaxPods
  /\ contexts \subseteq Contexts
  /\ \A j \in Jobs : \A i \in DOMAIN pods[j] :
       pods[j][i].exit # "none" => Context(j, i, pods[j][i].exit) \in contexts

LogBacked == log \in Seq(Events) /\ ResultIsBacked

(* A reader is inside its batch, and everything before it has been handled. *)
InStep ==
  \A s \in Subscribers :
    /\ reader[s].last <= Len(log)
    /\ reader[s].at \in {"handle", "ack"} => reader[s].next <= reader[s].last
    /\ reader[s].at = "handle" => 1..reader[s].next - 1 \subseteq handled
    /\ reader[s].at = "ack" => 1..reader[s].next \subseteq handled

ReadsInOrder ==
  /\ floor \in 0..Len(log)
  /\ reader \in [Subscribers -> Readers]
  /\ handled \subseteq 1..Len(log)
  /\ Delivered
  /\ InStep

Inv == HostTypes /\ ResultsHeld /\ PodsStored /\ LogBacked /\ ReadsInOrder

-----------------------------------------------------------------------------
(* What does not move stays true. *)

LEMMA ResultsKept ==
  ASSUME ResultsHeld, UNCHANGED <<job, result>>, contexts \subseteq contexts'
  PROVE  ResultsHeld'
BY DEF ResultsHeld

LEMMA PodsKept ==
  ASSUME PodsStored, UNCHANGED podVars, contexts \subseteq contexts', contexts' \subseteq Contexts
  PROVE  PodsStored'
BY DEF PodsStored, podVars

LEMMA LogKept ==
  ASSUME LogBacked, UNCHANGED log, contexts \subseteq contexts'
  PROVE  LogBacked'
BY DEF LogBacked, ResultIsBacked

LEMMA ReadsKept ==
  ASSUME ReadsInOrder, UNCHANGED <<log, floor, reader, handled>>
  PROVE  ReadsInOrder'
BY DEF ReadsInOrder, Delivered, InStep

LEMMA TypesKept ==
  ASSUME HostTypes, UNCHANGED <<job, backend, pc, note, status>>, faults' \in 0..MaxFaults
  PROVE  HostTypes'
BY DEF HostTypes

LEMMA FaultCounted ==
  ASSUME HostTypes, Fault
  PROVE  faults' \in 0..MaxFaults
BY CloudAssumption DEF HostTypes, Fault

LEMMA ContextFacts ==
  ASSUME NEW j \in Jobs, NEW i \in 0..MaxPods, NEW exit \in {"ok", "error", "none"}
  PROVE  /\ Context(j, i, exit) \in Contexts
         /\ Context(j, i, exit).job = j /\ Context(j, i, exit).exit = exit
BY DEF Context, Contexts

LEMMA PodFacts ==
  ASSUME PodsStored, NEW j \in Jobs, NEW i \in DOMAIN pods[j]
  PROVE  pods[j][i] \in Pods /\ i \in 0..MaxPods
<1>1. pods[j] \in Seq(Pods) /\ i \in 1..Len(pods[j]) /\ Len(pods[j]) <= MaxPods /\ Len(pods[j]) \in Nat
  BY DEF PodsStored
<1>2. QED
  BY <1>1, ElementOfSeq, CloudAssumption

-----------------------------------------------------------------------------
LEMMA InitInv == Init => Inv
<1> SUFFICES ASSUME Init PROVE Inv
  OBVIOUS
<1>1. PICK d \in Deployments :
        /\ job = d.job /\ backend = d.backend
        /\ pc = [h \in Hosts |-> IF h \in d.present THEN "submit" ELSE "lost"]
        /\ reader = [s \in Subscribers |-> [at |-> IF s \in d.present THEN "idle" ELSE "gone", next |-> 1, last |-> 0]]
  BY DEF Init
<1>2. job \in [Hosts -> Jobs] /\ backend \in [Hosts -> {"local", "cluster"}]
  BY <1>1, CloudAssumption
<1>3. HostTypes
  BY <1>1, <1>2, CloudAssumption DEF Init, HostTypes, Places, Final
<1>4. ResultsHeld
  BY <1>2, CloudAssumption DEF Init, ResultsHeld, Context, Contexts
<1>5. PodsStored
  BY CloudAssumption DEF Init, PodsStored
<1>6. LogBacked
  BY DEF Init, LogBacked, ResultIsBacked
<1>7. ReadsInOrder
  <2>1. reader \in [Subscribers -> Readers]
    BY <1>1 DEF Readers
  <2>2. floor = 0 /\ handled = {} /\ Len(log) = 0
    BY DEF Init
  <2>3. Delivered /\ InStep
    BY <1>1, <2>2 DEF Delivered, InStep
  <2>4. QED
    BY <2>1, <2>2, <2>3 DEF ReadsInOrder
<1>8. QED
  BY <1>3, <1>4, <1>5, <1>6, <1>7 DEF Inv

-----------------------------------------------------------------------------
(* Hosts. *)

LEMMA PublishInv ==
  ASSUME Inv, NEW h \in Hosts, Publish(h)
  PROVE  Inv'
<1> USE DEF Inv
<1> DEFINE e == [host |-> h, job |-> job[h], status |-> Reports(h), context |-> result[h]]
<1>1. log' = Append(log, e) /\ note' = [note EXCEPT ![h] = Reports(h)]
  BY DEF Publish
<1>2. Reports(h) \in Statuses /\ (Reports(h) = "completed" => result[h].exit = "ok")
  BY DEF Publish, Reports, Statuses
<1>3. e \in Events
  BY <1>2 DEF Events, HostTypes, ResultsHeld
<1>4. /\ log' \in Seq(Events) /\ Len(log') = Len(log) + 1
      /\ \A n \in 1..Len(log) : log'[n] = log[n]
      /\ log'[Len(log) + 1] = e
  BY <1>1, <1>3, AppendProperties DEF LogBacked
<1>5. HostTypes'
  BY <1>1, <1>2 DEF HostTypes, Publish
<1>6. ResultsHeld' /\ PodsStored'
  BY ResultsKept, PodsKept DEF Publish, PodsStored
<1>7. LogBacked'
  <2>1. DOMAIN log = 1..Len(log) /\ DOMAIN log' = 1..Len(log) + 1 /\ Len(log) \in Nat
    BY <1>4 DEF LogBacked
  <2>2. SUFFICES ASSUME NEW n \in 1..Len(log) + 1
        PROVE  /\ log'[n].status = "completed" => log'[n].context.exit = "ok"
               /\ log'[n].context.exit # "none" => log'[n].context \in contexts' /\ log'[n].context.job = log'[n].job
    BY <1>4, <2>1 DEF LogBacked, ResultIsBacked
  <2>3. contexts' = contexts
    BY DEF Publish
  <2>4. CASE n \in 1..Len(log)
    BY <1>4, <2>1, <2>3, <2>4 DEF LogBacked, ResultIsBacked
  <2>5. CASE n = Len(log) + 1
    BY <1>2, <1>4, <2>3, <2>5 DEF ResultsHeld
  <2>6. QED
    BY <2>1, <2>4, <2>5
<1>8. ReadsInOrder'
  <2>1. Len(log) \in Nat /\ UNCHANGED <<floor, reader, handled>>
    BY DEF LogBacked, Publish, readVars
  <2>2. reader \in [Subscribers -> Readers] /\ \A s \in Subscribers : reader[s].last \in Nat
    BY DEF ReadsInOrder, Readers
  <2>3. InStep'
    BY <1>4, <2>1, <2>2 DEF ReadsInOrder, InStep
  <2>4. QED
    BY <1>4, <2>1, <2>3 DEF ReadsInOrder, Delivered
<1>9. QED
  BY <1>5, <1>6, <1>7, <1>8

(* The steps that neither publish nor read keep the log and the readers. *)
LEMMA RecordInv ==
  ASSUME Inv, NEW h \in Hosts, Record(h)
  PROVE  Inv'
<1> USE DEF Inv
<1>1. After(h) \in Places
  BY DEF After, Places, Final
<1>2. HostTypes'
  BY <1>1 DEF Record, HostTypes
<1>3. ResultsHeld' /\ PodsStored' /\ LogBacked' /\ ReadsInOrder'
  BY ResultsKept, PodsKept, LogKept, ReadsKept DEF Record, PodsStored, readVars
<1>4. QED
  BY <1>2, <1>3

LEMMA LoseInv ==
  ASSUME Inv, NEW h \in Hosts, Lose(h) \/ Hang(h)
  PROVE  Inv'
<1> USE DEF Inv
<1>1. HostTypes'
  BY FaultCounted DEF Lose, Hang, HostTypes, Places, Final
<1>2. ResultsHeld' /\ PodsStored' /\ LogBacked' /\ ReadsInOrder'
  BY ResultsKept, PodsKept, LogKept, ReadsKept DEF Lose, Hang, PodsStored, readVars
<1>3. QED
  BY <1>1, <1>2

LEMMA GotoTypes ==
  ASSUME HostTypes, NEW h \in Hosts, NEW place \in Places, Goto(h, place)
  PROVE  HostTypes'
BY DEF Goto, HostTypes

(* A host that moves on with the result it had, or with none it did not. *)
LEMMA MovedInv ==
  ASSUME Inv, NEW h \in Hosts, NEW place \in Places, Goto(h, place), UNCHANGED <<result, podVars, contexts>>
  PROVE  Inv'
<1> USE DEF Inv
<1>1. HostTypes'
  BY GotoTypes
<1>2. ResultsHeld' /\ PodsStored' /\ LogBacked' /\ ReadsInOrder'
  BY ResultsKept, PodsKept, LogKept, ReadsKept DEF Goto, PodsStored, readVars
<1>3. QED
  BY <1>1, <1>2

LEMMA LaunchInv ==
  ASSUME Inv, NEW h \in Hosts, Launch(h)
  PROVE  Inv'
<1> USE DEF Inv
<1>1. Goto(h, "report") /\ UNCHANGED podVars
  BY DEF Launch
<1>2. CASE UNCHANGED <<result, contexts>>
  BY <1>1, <1>2, MovedInv DEF Places
<1>3. ASSUME NEW exit \in {"ok", "error"},
             result' = [result EXCEPT ![h] = Context(job[h], 0, exit)],
             contexts' = contexts \cup {result'[h]}
      PROVE  Inv'
  <2>1. HostTypes'
    BY <1>1, GotoTypes DEF Places
  <2>2. /\ Context(job[h], 0, exit) \in Contexts
        /\ Context(job[h], 0, exit).job = job[h]
    BY ContextFacts, CloudAssumption DEF HostTypes
  <2>3. /\ result' \in [Hosts -> Contexts] /\ result'[h] = Context(job[h], 0, exit)
        /\ \A k \in Hosts \ {h} : result'[k] = result[k]
    BY <1>3, <2>2 DEF ResultsHeld
  <2>4. contexts \subseteq contexts' /\ contexts' \subseteq Contexts /\ job' = job
    BY <1>1, <1>3, <2>2, <2>3 DEF PodsStored, Goto
  <2>5. ResultsHeld'
    BY <1>3, <2>2, <2>3, <2>4 DEF ResultsHeld
  <2>6. PodsStored' /\ LogBacked' /\ ReadsInOrder'
    BY <1>1, <2>4, PodsKept, LogKept, ReadsKept DEF Goto, readVars
  <2>7. QED
    BY <2>1, <2>5, <2>6
<1>4. QED
  BY <1>2, <1>3 DEF Launch

LEMMA ApplyInv ==
  ASSUME Inv, NEW h \in Hosts, Apply(h)
  PROVE  Inv'
<1> USE DEF Inv
<1>1. PICK place \in {"staged", "raised"} : Goto(h, place)
  BY DEF Apply
<1>2. HostTypes'
  BY <1>1, GotoTypes DEF Places, Final
<1>3. object' \in [Jobs -> {"absent", "active", "succeeded", "failed"}] /\ UNCHANGED <<pods, contexts, result>>
  BY DEF Apply, PodsStored
<1>4. PodsStored'
  BY <1>3 DEF PodsStored
<1>5. ResultsHeld' /\ LogBacked' /\ ReadsInOrder'
  BY <1>1, <1>3, ResultsKept, LogKept, ReadsKept DEF Goto, readVars
<1>6. QED
  BY <1>2, <1>4, <1>5

LEMMA CollectInv ==
  ASSUME Inv, NEW h \in Hosts, Collect(h)
  PROVE  Inv'
<1> USE DEF Inv
<1>1. UNCHANGED <<podVars, contexts>>
  BY DEF Collect
<1>2. CASE Goto(h, "raised") /\ UNCHANGED result
  BY <1>1, <1>2, MovedInv DEF Places, Final
<1>3. ASSUME NEW i \in DOMAIN pods[job[h]], NEW c \in Parsed(job[h], i),
             result' = [result EXCEPT ![h] = c], Goto(h, "report")
      PROVE  Inv'
  <2>1. HostTypes'
    BY <1>3, GotoTypes DEF Places
  <2>2. /\ job[h] \in Jobs /\ pods[job[h]] \in Seq(Pods) /\ i \in 1..Len(pods[job[h]])
        /\ i \in 0..MaxPods
    BY CloudAssumption DEF HostTypes, PodsStored
  <2>3. pods[job[h]][i].exit \in {"ok", "error", "none"}
    <3>1. pods[job[h]][i] \in Pods
      BY <2>2, PodFacts
    <3>2. QED
      BY <3>1 DEF Pods
  <2>4. c = Context(job[h], i, pods[job[h]][i].exit)
    BY DEF Parsed
  <2>5. c \in Contexts /\ c.job = job[h] /\ c.exit = pods[job[h]][i].exit
    BY <2>2, <2>3, <2>4, ContextFacts
  <2>6. c.exit # "none" => c \in contexts
    BY <2>2, <2>4, <2>5 DEF PodsStored
  <2>7. ResultsHeld'
    BY <1>1, <1>3, <2>5, <2>6 DEF ResultsHeld, Goto
  <2>8. PodsStored' /\ LogBacked' /\ ReadsInOrder'
    BY <1>1, <1>3, PodsKept, LogKept, ReadsKept DEF Goto, readVars, PodsStored
  <2>9. QED
    BY <2>1, <2>7, <2>8
<1>4. QED
  BY <1>2, <1>3 DEF Collect

-----------------------------------------------------------------------------
(* Pods. *)

(* What a step of a pod leaves alone. *)
LEMMA OutsidePods ==
  ASSUME Inv, UNCHANGED <<runVars, log, readVars>>, faults' \in 0..MaxFaults, contexts \subseteq contexts'
  PROVE  HostTypes' /\ ResultsHeld' /\ LogBacked' /\ ReadsInOrder'
BY TypesKept, ResultsKept, LogKept, ReadsKept DEF Inv, runVars, readVars

LEMMA StartPodInv ==
  ASSUME Inv, NEW j \in Jobs, StartPod(j)
  PROVE  Inv'
<1> USE DEF Inv
<1> DEFINE pod == [at |-> "running", exit |-> "none", printed |-> FALSE]
<1>1. pods' = [pods EXCEPT ![j] = Append(pods[j], pod)] /\ Len(pods[j]) < MaxPods
  BY DEF StartPod
<1>2. pods[j] \in Seq(Pods) /\ pod \in Pods
  BY DEF PodsStored, Pods
<1>3. /\ Append(pods[j], pod) \in Seq(Pods) /\ Len(Append(pods[j], pod)) = Len(pods[j]) + 1
      /\ \A i \in 1..Len(pods[j]) : Append(pods[j], pod)[i] = pods[j][i]
      /\ Append(pods[j], pod)[Len(pods[j]) + 1] = pod
  BY <1>2, AppendProperties
<1>4. pods' \in [Jobs -> Seq(Pods)] /\ \A k \in Jobs : Len(pods'[k]) <= MaxPods
  BY <1>1, <1>2, <1>3, CloudAssumption DEF PodsStored
<1>5. ASSUME NEW k \in Jobs, NEW i \in DOMAIN pods'[k], pods'[k][i].exit # "none"
      PROVE  Context(k, i, pods'[k][i].exit) \in contexts
  <2>1. CASE k # j
    BY <1>1, <1>5, <2>1 DEF PodsStored
  <2>2. CASE k = j
    <3>1. pods'[j] = Append(pods[j], pod)
      BY <1>1 DEF PodsStored
    <3>2. i \in 1..Len(pods[j]) + 1 /\ DOMAIN pods[j] = 1..Len(pods[j]) /\ Len(pods[j]) \in Nat
      BY <1>2, <1>3, <2>2, <3>1
    <3>3. i # Len(pods[j]) + 1
      BY <1>3, <1>5, <2>2, <3>1
    <3>4. i \in DOMAIN pods[j] /\ pods'[k][i] = pods[j][i]
      BY <1>3, <2>2, <3>1, <3>2, <3>3
    <3>5. QED
      BY <1>5, <2>2, <3>4 DEF PodsStored
  <2>3. QED
    BY <2>1, <2>2
<1>6. UNCHANGED <<object, contexts, runVars, log, readVars, faults>>
  BY DEF StartPod
<1>7. PodsStored'
  BY <1>4, <1>5, <1>6 DEF PodsStored
<1>8. QED
  BY <1>6, <1>7, OutsidePods DEF HostTypes

(* A step that rewrites one pod. *)
LEMMA PodChanged ==
  ASSUME PodsStored, NEW j \in Jobs, NEW i \in DOMAIN pods[j], NEW pod \in Pods,
         pods' = [pods EXCEPT ![j][i] = pod],
         object' \in [Jobs -> {"absent", "active", "succeeded", "failed"}],
         contexts \subseteq contexts', contexts' \subseteq Contexts,
         pod.exit # "none" => Context(j, i, pod.exit) \in contexts'
  PROVE  PodsStored'
<1>1. pods[j] \in Seq(Pods) /\ i \in 1..Len(pods[j])
  BY DEF PodsStored
<1>2. pods' = [pods EXCEPT ![j] = [pods[j] EXCEPT ![i] = pod]]
  OBVIOUS
<1>3. /\ [pods[j] EXCEPT ![i] = pod] \in Seq(Pods)
      /\ Len([pods[j] EXCEPT ![i] = pod]) = Len(pods[j])
      /\ DOMAIN [pods[j] EXCEPT ![i] = pod] = DOMAIN pods[j]
      /\ \A k \in DOMAIN pods[j] : [pods[j] EXCEPT ![i] = pod][k] = IF k = i THEN pod ELSE pods[j][k]
  BY <1>1, ExceptSeq
<1>4. /\ pods'[j] = [pods[j] EXCEPT ![i] = pod]
      /\ \A k \in Jobs \ {j} : pods'[k] = pods[k]
      /\ pods' \in [Jobs -> Seq(Pods)]
  BY <1>2, <1>3 DEF PodsStored
<1>5. \A k \in Jobs : Len(pods'[k]) <= MaxPods
  BY <1>3, <1>4 DEF PodsStored
<1>6. ASSUME NEW k \in Jobs, NEW n \in DOMAIN pods'[k], pods'[k][n].exit # "none"
      PROVE  Context(k, n, pods'[k][n].exit) \in contexts'
  BY <1>3, <1>4, <1>6 DEF PodsStored
<1>7. QED
  BY <1>4, <1>5, <1>6 DEF PodsStored

LEMMA PodRunsInv ==
  ASSUME Inv, NEW j \in Jobs, NEW i \in DOMAIN pods[j], PodRuns(j, i)
  PROVE  Inv'
<1> USE DEF Inv
<1>1. PICK exit \in {"ok", "error"} :
        /\ pods' = [pods EXCEPT ![j][i] = [@ EXCEPT !.at = "ran", !.exit = exit]]
        /\ contexts' = contexts \cup {Context(j, i, exit)}
  BY DEF PodRuns
<1> DEFINE pod == [pods[j][i] EXCEPT !.at = "ran", !.exit = exit]
<1>2. pods[j][i] \in Pods /\ i \in 0..MaxPods
  BY PodFacts
<1>3. pod \in Pods /\ pod.exit = exit
  BY <1>2 DEF Pods
<1>4. contexts \subseteq contexts' /\ contexts' \subseteq Contexts
  BY <1>1, <1>2, ContextFacts DEF PodsStored
<1>5. UNCHANGED <<object, runVars, log, readVars, faults>>
  BY DEF PodRuns
<1>6. PodsStored'
  BY <1>1, <1>3, <1>4, <1>5, PodChanged DEF PodsStored
<1>7. QED
  BY <1>4, <1>5, <1>6, OutsidePods DEF HostTypes

(* The other steps of a pod leave its exit code as it is. *)
LEMMA PodAdvances ==
  ASSUME Inv, NEW j \in Jobs, NEW i \in DOMAIN pods[j], NEW pod \in Pods,
         pods' = [pods EXCEPT ![j][i] = pod], pod.exit = pods[j][i].exit,
         object' \in [Jobs -> {"absent", "active", "succeeded", "failed"}],
         UNCHANGED <<runVars, contexts, log, readVars>>, faults' \in 0..MaxFaults
  PROVE  Inv'
<1>1. PodsStored'
  BY PodChanged DEF Inv, PodsStored
<1>2. QED
  BY <1>1, OutsidePods DEF Inv

LEMMA SettledType ==
  ASSUME PodsStored, NEW j \in Jobs, Settled(j)
  PROVE  object' \in [Jobs -> {"absent", "active", "succeeded", "failed"}]
BY DEF PodsStored, Settled

LEMMA PodPrintsInv ==
  ASSUME Inv, NEW j \in Jobs, NEW i \in DOMAIN pods[j], PodPrints(j, i)
  PROVE  Inv'
<1> DEFINE pod == [pods[j][i] EXCEPT !.at = "printed", !.printed = TRUE]
<1>1. pod \in Pods /\ pod.exit = pods[j][i].exit
  <2>1. pods[j][i] \in Pods
    BY PodFacts DEF Inv
  <2>2. QED
    BY <2>1 DEF Pods
<1>2. pods' = [pods EXCEPT ![j][i] = pod] /\ UNCHANGED <<object, runVars, contexts, log, readVars, faults>>
  BY DEF PodPrints
<1>3. QED
  BY <1>1, <1>2, PodAdvances DEF Inv, PodsStored, HostTypes

LEMMA PodExitsInv ==
  ASSUME Inv, NEW j \in Jobs, NEW i \in DOMAIN pods[j], PodExits(j, i)
  PROVE  Inv'
<1> DEFINE pod == [pods[j][i] EXCEPT !.at = "ended"]
<1>1. pod \in Pods /\ pod.exit = pods[j][i].exit
  <2>1. pods[j][i] \in Pods
    BY PodFacts DEF Inv
  <2>2. QED
    BY <2>1 DEF Pods
<1>2. pods' = [pods EXCEPT ![j][i] = pod] /\ UNCHANGED <<runVars, contexts, log, readVars, faults>>
  BY DEF PodExits
<1>3. object' \in [Jobs -> {"absent", "active", "succeeded", "failed"}]
  BY SettledType DEF PodExits, Inv, PodsStored
<1>4. QED
  BY <1>1, <1>2, <1>3, PodAdvances DEF Inv, HostTypes

LEMMA KillPodInv ==
  ASSUME Inv, NEW j \in Jobs, NEW i \in DOMAIN pods[j], KillPod(j, i)
  PROVE  Inv'
<1> DEFINE pod == [pods[j][i] EXCEPT !.at = "killed"]
<1>1. pod \in Pods /\ pod.exit = pods[j][i].exit
  <2>1. pods[j][i] \in Pods
    BY PodFacts DEF Inv
  <2>2. QED
    BY <2>1 DEF Pods
<1>2. pods' = [pods EXCEPT ![j][i] = pod] /\ UNCHANGED <<runVars, contexts, log, readVars>>
  BY DEF KillPod
<1>3. object' \in [Jobs -> {"absent", "active", "succeeded", "failed"}]
  BY SettledType DEF KillPod, Inv
<1>4. faults' \in 0..MaxFaults
  BY FaultCounted DEF KillPod, Inv
<1>5. QED
  BY <1>1, <1>2, <1>3, <1>4, PodAdvances

-----------------------------------------------------------------------------
(* Subscribers. *)

LEMMA OutsideReaders ==
  ASSUME Inv, ReadOnly, faults' \in 0..MaxFaults
  PROVE  HostTypes' /\ ResultsHeld' /\ PodsStored' /\ LogBacked'
BY TypesKept, ResultsKept, PodsKept, LogKept DEF Inv, ReadOnly, runVars, PodsStored

LEMMA ReaderFacts ==
  ASSUME Inv
  PROVE  /\ Len(log) \in Nat /\ floor \in Nat /\ floor <= Len(log)
         /\ \A s \in Subscribers :
              /\ reader[s] \in Readers
              /\ reader[s].next \in Nat /\ reader[s].next > 0 /\ reader[s].last \in Nat
BY DEF Inv, LogBacked, ReadsInOrder, Readers

LEMMA FetchInv ==
  ASSUME Inv, NEW s \in Subscribers, Fetch(s)
  PROVE  Inv'
<1> DEFINE r == [at |-> "handle", next |-> floor + 1, last |-> LastPending(floor)]
<1>1. reader' = [reader EXCEPT ![s] = r] /\ floor < Len(log) /\ UNCHANGED <<floor, handled, faults, log>> /\ ReadOnly
  BY DEF Fetch, ReadOnly
<1>2. /\ LastPending(floor) \in Nat /\ LastPending(floor) <= Len(log)
      /\ floor + 1 <= LastPending(floor)
  BY <1>1, ReaderFacts, CloudAssumption DEF LastPending
<1>3. r \in Readers
  BY <1>2, ReaderFacts DEF Readers
<1>4. /\ reader' \in [Subscribers -> Readers] /\ reader'[s] = r
      /\ \A t \in Subscribers \ {s} : reader'[t] = reader[t]
  BY <1>1, <1>3 DEF Inv, ReadsInOrder
<1>5. 1..r.next - 1 = 1..floor
  BY ReaderFacts
<1>6. InStep'
  BY <1>1, <1>2, <1>4, <1>5 DEF Inv, ReadsInOrder, InStep, Delivered
<1>7. ReadsInOrder'
  BY <1>1, <1>4, <1>6 DEF Inv, ReadsInOrder, Delivered
<1>8. QED
  BY <1>1, <1>7, OutsideReaders DEF Inv, HostTypes

LEMMA HandleInv ==
  ASSUME Inv, NEW s \in Subscribers, Handle(s)
  PROVE  Inv'
<1> DEFINE n == reader[s].next
           r == [reader[s] EXCEPT !.at = "ack"]
<1>1. /\ reader' = [reader EXCEPT ![s] = r] /\ handled' = handled \cup {n}
      /\ reader[s].at = "handle" /\ UNCHANGED <<floor, faults, log>> /\ ReadOnly
  BY DEF Handle, ReadOnly
<1>2. r \in Readers /\ r.next = n /\ r.last = reader[s].last /\ r.at = "ack"
  BY ReaderFacts DEF Readers
<1>3. /\ reader' \in [Subscribers -> Readers] /\ reader'[s] = r
      /\ \A t \in Subscribers \ {s} : reader'[t] = reader[t]
  BY <1>1, <1>2 DEF Inv, ReadsInOrder
<1>4. n \in 1..Len(log) /\ 1..n - 1 \subseteq handled /\ reader[s].last <= Len(log)
  BY <1>1, ReaderFacts DEF Inv, ReadsInOrder, InStep
<1>5. 1..n \subseteq handled' /\ handled' \subseteq 1..Len(log)
  BY <1>1, <1>4, ReaderFacts DEF Inv, ReadsInOrder
<1>6. Delivered'
  BY <1>1, <1>5 DEF Inv, ReadsInOrder, Delivered
<1>7. InStep'
  <2>1. SUFFICES ASSUME NEW t \in Subscribers
        PROVE  /\ reader'[t].last <= Len(log')
               /\ reader'[t].at \in {"handle", "ack"} => reader'[t].next <= reader'[t].last
               /\ reader'[t].at = "handle" => 1..reader'[t].next - 1 \subseteq handled'
               /\ reader'[t].at = "ack" => 1..reader'[t].next \subseteq handled'
    BY DEF InStep
  <2>2. CASE t = s
    BY <1>1, <1>2, <1>3, <1>4, <1>5, <2>2 DEF Inv, ReadsInOrder, InStep
  <2>3. CASE t # s
    BY <1>1, <1>3, <2>3 DEF Inv, ReadsInOrder, InStep
  <2>4. QED
    BY <2>2, <2>3
<1>8. ReadsInOrder'
  BY <1>1, <1>3, <1>5, <1>6, <1>7 DEF Inv, ReadsInOrder
<1>9. QED
  BY <1>1, <1>8, OutsideReaders DEF Inv, HostTypes

LEMMA StopInv ==
  ASSUME Inv, NEW s \in Subscribers, Stop(s)
  PROVE  Inv'
<1> DEFINE r == [reader[s] EXCEPT !.at = "idle"]
<1>1. reader' = [reader EXCEPT ![s] = r] /\ UNCHANGED <<floor, handled, log>> /\ ReadOnly
  BY DEF Stop, ReadOnly
<1>2. r \in Readers /\ r.at = "idle" /\ r.last = reader[s].last
  BY ReaderFacts DEF Readers
<1>3. /\ reader' \in [Subscribers -> Readers] /\ reader'[s] = r
      /\ \A t \in Subscribers \ {s} : reader'[t] = reader[t]
  BY <1>1, <1>2 DEF Inv, ReadsInOrder
<1>4. InStep'
  BY <1>1, <1>2, <1>3 DEF Inv, ReadsInOrder, InStep
<1>5. ReadsInOrder'
  BY <1>1, <1>3, <1>4 DEF Inv, ReadsInOrder, Delivered
<1>6. faults' \in 0..MaxFaults
  BY FaultCounted DEF Stop, Inv
<1>7. QED
  BY <1>1, <1>5, <1>6, OutsideReaders DEF Inv

LEMMA AckInv ==
  ASSUME Inv, NEW s \in Subscribers, Ack(s)
  PROVE  Inv'
<1> DEFINE n == reader[s].next
           r == Advanced(reader[s])
<1>1. /\ reader' = [reader EXCEPT ![s] = r] /\ floor' = IF floor < n THEN n ELSE floor
      /\ reader[s].at = "ack" /\ UNCHANGED <<handled, faults, log>> /\ ReadOnly
  BY DEF Ack, ReadOnly
<1>2. n \in Nat /\ 1..n \subseteq handled /\ n <= Len(log) /\ reader[s].last <= Len(log)
  BY <1>1, ReaderFacts DEF Inv, ReadsInOrder, InStep
<1>3. /\ r \in Readers /\ r.last = reader[s].last /\ r.at \in {"handle", "idle"}
      /\ r.at = "handle" => r.next <= r.last /\ r.next - 1 = n
  <2>1. reader[s] \in Readers
    BY ReaderFacts
  <2>2. CASE n < reader[s].last
    <3>1. r = [reader[s] EXCEPT !.at = "handle", !.next = n + 1]
      BY <2>2 DEF Advanced
    <3>2. n + 1 \in Nat \ {0} /\ n + 1 <= reader[s].last /\ (n + 1) - 1 = n
      BY <1>2, <2>1, <2>2 DEF Readers
    <3>3. QED
      BY <2>1, <3>1, <3>2 DEF Readers
  <2>3. CASE ~(n < reader[s].last)
    <3>1. r = [reader[s] EXCEPT !.at = "idle"]
      BY <2>3 DEF Advanced
    <3>2. QED
      BY <2>1, <3>1 DEF Readers
  <2>4. QED
    BY <2>2, <2>3
<1>4. /\ reader' \in [Subscribers -> Readers] /\ reader'[s] = r
      /\ \A t \in Subscribers \ {s} : reader'[t] = reader[t]
  BY <1>1, <1>3 DEF Inv, ReadsInOrder
<1>5. floor' \in 0..Len(log) /\ 1..floor' \subseteq handled
  BY <1>1, <1>2, ReaderFacts DEF Inv, ReadsInOrder, Delivered
<1>6. InStep'
  <2>1. SUFFICES ASSUME NEW t \in Subscribers
        PROVE  /\ reader'[t].last <= Len(log')
               /\ reader'[t].at \in {"handle", "ack"} => reader'[t].next <= reader'[t].last
               /\ reader'[t].at = "handle" => 1..reader'[t].next - 1 \subseteq handled'
               /\ reader'[t].at = "ack" => 1..reader'[t].next \subseteq handled'
    BY DEF InStep
  <2>2. CASE t = s
    BY <1>1, <1>2, <1>3, <1>4, <2>2
  <2>3. CASE t # s
    BY <1>1, <1>4, <2>3 DEF Inv, ReadsInOrder, InStep
  <2>4. QED
    BY <2>2, <2>3
<1>7. ReadsInOrder'
  BY <1>1, <1>4, <1>5, <1>6 DEF Inv, ReadsInOrder, Delivered
<1>8. QED
  BY <1>1, <1>7, OutsideReaders DEF Inv, HostTypes

-----------------------------------------------------------------------------
LEMMA NextInv == Inv /\ [Next]_vars => Inv'
<1> SUFFICES ASSUME Inv, [Next]_vars PROVE Inv'
  OBVIOUS
<1>1. ASSUME NEW h \in Hosts, HostStep(h) \/ Lose(h) \/ Hang(h)
      PROVE  Inv'
  <2>1. CASE Stage(h)
    BY <2>1, MovedInv DEF Stage, Places, Final
  <2>2. CASE Poll(h)
    BY <2>2, MovedInv DEF Poll, Places
  <2>3. CASE TimeOut(h)
    BY <2>3, MovedInv DEF TimeOut, Places, Final
  <2>4. QED
    BY <1>1, <2>1, <2>2, <2>3, PublishInv, RecordInv, LoseInv, LaunchInv, ApplyInv, CollectInv DEF HostStep
<1>2. ASSUME NEW j \in Jobs, PodStep(j)
      PROVE  Inv'
  BY <1>2, StartPodInv, PodRunsInv, PodPrintsInv, PodExitsInv, KillPodInv DEF PodStep
<1>3. ASSUME NEW s \in Subscribers, ReaderStep(s) \/ Stop(s)
      PROVE  Inv'
  BY <1>3, FetchInv, HandleInv, AckInv, StopInv DEF ReaderStep
<1>4. CASE UNCHANGED vars
  BY <1>4, TypesKept, ResultsKept, PodsKept, LogKept, ReadsKept
     DEF Inv, vars, runVars, podVars, readVars, HostTypes, PodsStored
<1>5. QED
  BY <1>1, <1>2, <1>3, <1>4 DEF Next

THEOREM Invariance == Spec => []Inv
BY InitInv, NextInv, PTL DEF Spec

(* Every variable of the cloud's run path keeps its type. *)
THEOREM TypeCorrect == Spec => []TypeOK
<1>1. Inv => TypeOK
  <2> SUFFICES ASSUME Inv PROVE TypeOK
    OBVIOUS
  <2>1. reader \in [Subscribers -> [at : {"idle", "handle", "ack", "gone"}, next : Nat \ {0}, last : 0..Len(log)]]
    <3>1. \A s \in Subscribers : reader[s] \in Readers /\ reader[s].last \in 0..Len(log)
      BY ReaderFacts DEF Inv, ReadsInOrder, InStep
    <3>2. \A s \in Subscribers :
            reader[s] \in [at : {"idle", "handle", "ack", "gone"}, next : Nat \ {0}, last : 0..Len(log)]
      BY <3>1 DEF Readers
    <3>3. QED
      BY <3>2 DEF Inv, ReadsInOrder
  <2>2. QED
    BY <2>1 DEF Inv, TypeOK, HostTypes, ResultsHeld, PodsStored, LogBacked, ReadsInOrder, Events, Places
<1>2. QED
  BY <1>1, Invariance, PTL

(* No subscriber of a durable name ever skips an event or goes past one    *)
(* that has not been handled: drain handles before it acknowledges, one    *)
(* event after the other.                                                  *)
THEOREM DeliveredInOrder == Spec => []Delivered
<1>1. Inv => Delivered
  BY DEF Inv, ReadsInOrder
<1>2. QED
  BY <1>1, Invariance, PTL

(* What an event reports was stored by a workload of the job it names, and *)
(* "completed" means that this workload exited with zero.                  *)
THEOREM ReportsAreBacked == Spec => []ResultIsBacked
<1>1. Inv => ResultIsBacked
  BY DEF Inv, LogBacked
<1>2. QED
  BY <1>1, Invariance, PTL

-----------------------------------------------------------------------------
(* The event stream is the abstract one.                                   *)

LEMMA StreamInit == Init => Stream!Init
BY DEF Init, Stream!Init

(* Each step appends an event, finishes or acknowledges the next one, or   *)
(* leaves the stream alone; redelivery is one of the last.                 *)
LEMMA StreamStep == Inv /\ [Next]_vars => [Stream!Next]_<<log, floor, handled>>
<1> SUFFICES ASSUME Inv, [Next]_vars PROVE Stream!Next \/ UNCHANGED <<log, floor, handled>>
  OBVIOUS
<1>1. ASSUME NEW h \in Hosts, Publish(h)
      PROVE  Stream!Next
  <2> DEFINE e == [host |-> h, job |-> job[h], status |-> Reports(h), context |-> result[h]]
  <2>1. Reports(h) \in Statuses
    BY <1>1 DEF Publish, Reports, Statuses
  <2>2. e \in Events
    BY <2>1 DEF Events, Inv, HostTypes, ResultsHeld
  <2>3. Stream!Publish(e)
    BY <1>1 DEF Publish, Stream!Publish, readVars
  <2>4. QED
    BY <2>2, <2>3 DEF Stream!Next, Events
<1>2. ASSUME NEW h \in Hosts, HostStep(h) \/ Lose(h) \/ Hang(h), ~Publish(h)
      PROVE  UNCHANGED <<log, floor, handled>>
  BY <1>2 DEF HostStep, Lose, Hang, Record, Stage, Launch, Apply, Poll, TimeOut, Collect, Goto, readVars
<1>3. ASSUME NEW j \in Jobs, PodStep(j)
      PROVE  UNCHANGED <<log, floor, handled>>
  BY <1>3 DEF PodStep, StartPod, PodRuns, PodPrints, PodExits, KillPod, readVars
<1>4. ASSUME NEW s \in Subscribers, Handle(s)
      PROVE  Stream!Next
  <2> DEFINE n == reader[s].next
  <2>1. n \in DOMAIN log /\ 1..(n - 1) \subseteq handled
    BY <1>4, ReaderFacts DEF Handle, Inv, ReadsInOrder, InStep, LogBacked
  <2>2. Stream!Handle(n)
    BY <1>4, <2>1 DEF Handle, ReadOnly, Stream!Handle
  <2>3. QED
    BY <2>1, <2>2 DEF Stream!Next
<1>5. ASSUME NEW s \in Subscribers, Ack(s)
      PROVE  Stream!Next \/ UNCHANGED <<log, floor, handled>>
  <2> DEFINE n == reader[s].next
  <2>1. n \in DOMAIN log /\ 1..n \subseteq handled
    BY <1>5, ReaderFacts DEF Ack, Inv, ReadsInOrder, InStep, LogBacked
  <2>2. CASE floor < n
    <3>1. Stream!Acknowledge(n)
      BY <1>5, <2>1, <2>2 DEF Ack, ReadOnly, Stream!Acknowledge
    <3>2. QED
      BY <2>1, <3>1 DEF Stream!Next
  <2>3. CASE ~(floor < n)
    BY <1>5, <2>3 DEF Ack, ReadOnly
  <2>4. QED
    BY <2>2, <2>3
<1>6. ASSUME NEW s \in Subscribers, Fetch(s) \/ Stop(s)
      PROVE  UNCHANGED <<log, floor, handled>>
  BY <1>6 DEF Fetch, Stop, ReadOnly
<1>7. CASE UNCHANGED vars
  BY <1>7 DEF vars, readVars
<1>8. QED
  BY <1>1, <1>2, <1>3, <1>4, <1>5, <1>6, <1>7 DEF Next, ReaderStep, HostStep

(* eventlog.py:4-13: for any number of publishers, subscribers and faults  *)
(* and any batch, publishing, draining, dying and starting anew are an     *)
(* append-only stream that is handled in order and at least once.          *)
THEOREM StreamIsImplemented == Spec => ImplementsStream
<1>1. Init => Stream!Init
  BY StreamInit
<1>2. Inv /\ [Next]_vars => [Stream!Next]_<<log, floor, handled>>
  BY StreamStep
<1>3. QED
  BY <1>1, <1>2, Invariance, PTL DEF Spec, ImplementsStream, Stream!Spec, Stream!streamVars

-----------------------------------------------------------------------------
(* A transition under way.                                                 *)

(* What a host has published and not recorded is what its place reports.   *)
Noted ==
  \A h \in Hosts :
    note[h] # "none" /\ pc[h] \notin Final =>
      pc[h] \in {"submit", "staged", "report"} /\ note[h] = Reports(h)

LEMMA NotedStep == Inv /\ Noted /\ [Next]_vars => Noted'
<1> SUFFICES ASSUME Inv, Noted, [Next]_vars PROVE Noted'
  OBVIOUS
<1> USE DEF Inv
<1>0. /\ note \in [Hosts -> Statuses \cup {"none"}] /\ pc \in [Hosts -> Places]
      /\ result \in [Hosts -> Contexts]
  BY DEF HostTypes, ResultsHeld
<1>1. ASSUME UNCHANGED <<pc, note, result>>
      PROVE  Noted'
  BY <1>1 DEF Noted, Reports
<1>2. ASSUME NEW h \in Hosts, NEW place \in Places, Goto(h, place),
             \A g \in Hosts \ {h} : result'[g] = result[g]
      PROVE  Noted'
  <2>1. note[h] = "none" /\ note' = note /\ \A g \in Hosts \ {h} : pc'[g] = pc[g]
    BY <1>0, <1>2 DEF Goto
  <2>2. QED
    BY <1>2, <2>1 DEF Noted, Reports
<1>3. ASSUME NEW h \in Hosts, Publish(h) PROVE Noted'
  BY <1>0, <1>3 DEF Publish, Noted, Reports
<1>4. ASSUME NEW h \in Hosts, Record(h) PROVE Noted'
  BY <1>0, <1>4 DEF Record, Noted, Reports
<1>5. ASSUME NEW h \in Hosts, Lose(h) \/ Hang(h) PROVE Noted'
  BY <1>0, <1>5 DEF Lose, Hang, Noted, Reports, Final
<1>6. ASSUME NEW h \in Hosts, Stage(h) \/ Apply(h) \/ Poll(h) \/ TimeOut(h)
      PROVE  Noted'
  BY <1>2, <1>6 DEF Stage, Apply, Poll, TimeOut, Places, Final
<1>7. ASSUME NEW h \in Hosts, Launch(h) \/ Collect(h) PROVE Noted'
  <2>1. \A g \in Hosts \ {h} : result'[g] = result[g]
    BY <1>0, <1>7 DEF Launch, Collect
  <2>2. Goto(h, "report") \/ Goto(h, "raised")
    BY <1>7 DEF Launch, Collect
  <2>3. QED
    BY <1>2, <2>1, <2>2 DEF Places, Final
<1>8. ASSUME NEW j \in Jobs, PodStep(j) PROVE Noted'
  BY <1>1, <1>8 DEF PodStep, StartPod, PodRuns, PodPrints, PodExits, KillPod, runVars
<1>9. ASSUME NEW s \in Subscribers, ReaderStep(s) \/ Stop(s) PROVE Noted'
  BY <1>1, <1>9 DEF ReaderStep, Fetch, Handle, Ack, Stop, ReadOnly, runVars
<1>10. CASE UNCHANGED vars
  BY <1>1, <1>10 DEF vars, runVars
<1>11. QED
  BY <1>3, <1>4, <1>5, <1>6, <1>7, <1>8, <1>9, <1>10 DEF Next, HostStep

(* The steps of the run path that neither publish nor record. *)
LEMMA NothingSaid ==
  ASSUME [Next]_vars, \A h \in Hosts : ~Publish(h) /\ ~Record(h)
  PROVE  UNCHANGED <<job, note, log, status>>
<1>1. ASSUME NEW h \in Hosts, HostStep(h) \/ Lose(h) \/ Hang(h)
      PROVE  UNCHANGED <<job, note, log, status>>
  BY <1>1 DEF HostStep, Lose, Hang, Stage, Launch, Apply, Poll, TimeOut, Collect, Goto
<1>2. ASSUME NEW j \in Jobs, PodStep(j)
      PROVE  UNCHANGED <<job, note, log, status>>
  BY <1>2 DEF PodStep, StartPod, PodRuns, PodPrints, PodExits, KillPod, runVars
<1>3. ASSUME NEW s \in Subscribers, ReaderStep(s) \/ Stop(s)
      PROVE  UNCHANGED <<job, note, log, status>>
  BY <1>3 DEF ReaderStep, Fetch, Handle, Ack, Stop, ReadOnly, runVars
<1>4. CASE UNCHANGED vars
  BY <1>4 DEF vars, runVars
<1>5. QED
  BY <1>1, <1>2, <1>3, <1>4 DEF Next

-----------------------------------------------------------------------------
(* The status store and the stream.                                        *)

Told(a, status_) == \E n \in DOMAIN log : AddressOf[log[n].job] = a /\ log[n].status = status_

(* The status store is never ahead of the stream. *)
StoreTold == \A a \in Addresses : status[a] # "none" => Told(a, status[a])

NotesTold == \A h \in Hosts : note[h] # "none" => Told(AddressOf[job[h]], note[h])

LEMMA PublishTells ==
  ASSUME Inv, StoreTold, NotesTold, NEW g \in Hosts, Publish(g)
  PROVE  (StoreTold /\ NotesTold)'
<1> USE DEF Inv
<1> DEFINE e == [host |-> g, job |-> job[g], status |-> Reports(g), context |-> result[g]]
<1>1. Reports(g) \in Statuses
  BY DEF Publish, Reports, Statuses
<1>2. e \in Events
  BY <1>1 DEF Events, HostTypes, ResultsHeld
<1>3. /\ Len(log) \in Nat /\ DOMAIN log = 1..Len(log) /\ DOMAIN log' = 1..Len(log) + 1
      /\ \A n \in 1..Len(log) : log'[n] = log[n]
      /\ log'[Len(log) + 1] = e
  BY <1>2, AppendProperties DEF LogBacked, Publish
<1>4. /\ job' = job /\ status' = status /\ note'[g] = Reports(g)
      /\ \A h \in Hosts \ {g} : note'[h] = note[h]
  BY DEF Publish, HostTypes
<1>5. ASSUME NEW a, NEW status_, Told(a, status_) PROVE Told(a, status_)'
  <2>1. PICK n \in DOMAIN log : AddressOf[log[n].job] = a /\ log[n].status = status_
    BY <1>5 DEF Told
  <2>2. n \in DOMAIN log' /\ log'[n] = log[n]
    BY <1>3
  <2>3. QED
    BY <2>1, <2>2 DEF Told
<1>6. Told(AddressOf[job[g]], Reports(g))'
  <2>1. Len(log) + 1 \in DOMAIN log' /\ e.job = job'[g] /\ e.status = Reports(g)
    BY <1>3, <1>4
  <2>2. Reports(g)' = Reports(g)
    BY DEF Publish, Reports
  <2>3. QED
    BY <1>3, <2>1, <2>2 DEF Told
<1>7. Reports(g)' = Reports(g)
  BY DEF Publish, Reports
<1>8. StoreTold'
  BY <1>4, <1>5 DEF StoreTold
<1>9. NotesTold'
  BY <1>4, <1>5, <1>6, <1>7 DEF NotesTold
<1>10. QED
  BY <1>8, <1>9

LEMMA RecordTells ==
  ASSUME Inv, StoreTold, NotesTold, NEW g \in Hosts, Record(g)
  PROVE  (StoreTold /\ NotesTold)'
<1> USE DEF Inv
<1>1. /\ job' = job /\ log' = log /\ note[g] # "none" /\ note'[g] = "none"
      /\ \A h \in Hosts \ {g} : note'[h] = note[h]
  BY DEF Record, HostTypes
<1>2. status' = [status EXCEPT ![AddressOf[job[g]]] = note[g]]
  BY DEF Record
<1>3. status \in [Addresses -> Statuses \cup {"none"}]
  BY DEF HostTypes
<1>4. \A a, status_ : Told(a, status_)' <=> Told(a, status_)
  BY <1>1 DEF Told
<1>5. NotesTold'
  BY <1>1, <1>4 DEF NotesTold
<1>6. ASSUME NEW a \in Addresses, status'[a] # "none" PROVE Told(a, status'[a])
  <2>1. CASE a = AddressOf[job[g]]
    BY <1>1, <1>2, <1>3, <2>1 DEF NotesTold
  <2>2. CASE a # AddressOf[job[g]]
    BY <1>2, <1>3, <1>6, <2>2 DEF StoreTold
  <2>3. QED
    BY <2>1, <2>2
<1>7. QED
  BY <1>4, <1>5, <1>6 DEF StoreTold

LEMMA TellsStep == Inv /\ StoreTold /\ NotesTold /\ [Next]_vars => (StoreTold /\ NotesTold)'
<1> SUFFICES ASSUME Inv, StoreTold, NotesTold, [Next]_vars PROVE (StoreTold /\ NotesTold)'
  OBVIOUS
<1>1. CASE \A h \in Hosts : ~Publish(h) /\ ~Record(h)
  <2>1. UNCHANGED <<job, note, log, status>>
    BY <1>1, NothingSaid
  <2>2. QED
    BY <2>1 DEF StoreTold, NotesTold, Told
<1>2. QED
  BY <1>1, PublishTells, RecordTells

(* transition publishes, then records (events.py:117-133): whoever dies or *)
(* hangs between the two, and however many runs share an address (run_pin, *)
(* runcontext.py:106-117), what the status store shows for an address has  *)
(* been published for a run of that address.  Nothing makes it the last    *)
(* event: a host lost halfway, or another run of the address, prevents it. *)
THEOREM StatusWasPublished == Spec => []StoreTold
<1>1. Init => StoreTold /\ NotesTold
  BY CloudAssumption DEF Init, StoreTold, NotesTold
<1>2. Inv /\ StoreTold /\ NotesTold /\ [Next]_vars => (StoreTold /\ NotesTold)'
  BY TellsStep
<1>3. QED
  BY <1>1, <1>2, Invariance, PTL DEF Spec

-----------------------------------------------------------------------------
(* How a submit ends.                                                      *)

HasSaid(h, statuses) == \E n \in DOMAIN log : log[n].host = h /\ log[n].status \in statuses

(* A submit that returned has told the stream how its run ended, and so    *)
(* has one through the local backend that raised after it started.  What   *)
(* StartedIsClosed says beyond that fails, in the cluster backend.         *)
RunsAreClosed ==
  \A h \in Hosts :
    /\ pc[h] = "returned" => HasSaid(h, Terminal)
    /\ pc[h] = "raised" /\ backend[h] = "local" /\ HasSaid(h, {"started"}) => HasSaid(h, Terminal)

(* What a host has said, by where it stands. *)
Closing ==
  \A h \in Hosts :
    /\ pc[h] = "report" /\ note[h] # "none" => HasSaid(h, Terminal)
    /\ backend[h] = "local" => pc[h] \notin {"apply", "wait", "collect"}
    /\ backend[h] = "local" /\ (pc[h] = "staged" => note[h] = "none") /\ pc[h] \in {"submit", "stage", "staged"}
         => ~HasSaid(h, {"started"})

LEMMA SaidByPublish ==
  ASSUME Inv, NEW g \in Hosts, Publish(g), NEW h \in Hosts, NEW S
  PROVE  HasSaid(h, S)' <=> HasSaid(h, S) \/ (h = g /\ Reports(g) \in S)
<1> DEFINE e == [host |-> g, job |-> job[g], status |-> Reports(g), context |-> result[g]]
<1>1. Reports(g) \in Statuses
  BY DEF Publish, Reports, Statuses
<1>2. e \in Events
  BY <1>1 DEF Events, Inv, HostTypes, ResultsHeld
<1>3. /\ Len(log) \in Nat /\ DOMAIN log = 1..Len(log) /\ DOMAIN log' = 1..Len(log) + 1
      /\ \A n \in 1..Len(log) : log'[n] = log[n]
      /\ log'[Len(log) + 1] = e
  BY <1>2, AppendProperties DEF Inv, LogBacked, Publish
<1>4. HasSaid(h, S)' <=> \E n \in DOMAIN log' : log'[n].host = h /\ log'[n].status \in S
  BY DEF HasSaid
<1>5. QED
  BY <1>3, <1>4 DEF HasSaid

LEMMA SaidStays ==
  ASSUME UNCHANGED log, NEW h, NEW S
  PROVE  HasSaid(h, S)' <=> HasSaid(h, S)
BY DEF HasSaid

Ending == Noted /\ Closing /\ RunsAreClosed

LEMMA EndingPublish ==
  ASSUME Inv, Ending, NEW h \in Hosts, Publish(h)
  PROVE  Closing' /\ RunsAreClosed'
<1> USE DEF Inv
<1>1. /\ pc' = pc /\ backend' = backend /\ note[h] = "none" /\ note'[h] = Reports(h)
      /\ \A g \in Hosts \ {h} : note'[g] = note[g]
      /\ pc[h] \in {"submit", "staged", "report"}
  BY DEF Publish, HostTypes
<1>2. CASE pc[h] = "submit"
  <2>1. Reports(h) = "submitted"
    BY <1>2 DEF Reports
  <2>2. \A g \in Hosts : /\ HasSaid(g, Terminal)' <=> HasSaid(g, Terminal)
                         /\ HasSaid(g, {"started"})' <=> HasSaid(g, {"started"})
    BY <2>1, SaidByPublish DEF Terminal
  <2>3. QED
    BY <1>1, <1>2, <2>2 DEF Ending, Closing, RunsAreClosed
<1>3. CASE pc[h] = "staged"
  <2>1. Reports(h) = "started"
    BY <1>3 DEF Reports
  <2>2. \A g \in Hosts : HasSaid(g, Terminal)' <=> HasSaid(g, Terminal)
    BY <2>1, SaidByPublish DEF Terminal
  <2>3. \A g \in Hosts \ {h} : HasSaid(g, {"started"})' <=> HasSaid(g, {"started"})
    BY SaidByPublish
  <2>4. QED
    BY <1>1, <1>3, <2>1, <2>2, <2>3 DEF Ending, Closing, RunsAreClosed
<1>4. CASE pc[h] = "report"
  <2>1. Reports(h) \in Terminal /\ Reports(h) # "started"
    BY <1>4 DEF Reports, Terminal
  <2>2. \A g \in Hosts : HasSaid(g, {"started"})' <=> HasSaid(g, {"started"})
    BY <2>1, SaidByPublish
  <2>3. HasSaid(h, Terminal)' /\ \A g \in Hosts \ {h} : HasSaid(g, Terminal)' <=> HasSaid(g, Terminal)
    BY <2>1, SaidByPublish
  <2>4. QED
    BY <1>1, <1>4, <2>2, <2>3 DEF Ending, Closing, RunsAreClosed
<1>5. QED
  BY <1>1, <1>2, <1>3, <1>4

(* The other steps of a host: it moves on, and says nothing. *)
LEMMA EndingMoves ==
  ASSUME Inv, Ending, NEW h \in Hosts, HostStep(h) \/ Lose(h) \/ Hang(h), ~Publish(h)
  PROVE  Closing' /\ RunsAreClosed'
<1> USE DEF Inv
<1>1. /\ UNCHANGED <<log, backend>>
      /\ \A g \in Hosts \ {h} : pc'[g] = pc[g] /\ note'[g] = note[g]
  BY DEF HostStep, Lose, Hang, Record, Stage, Launch, Apply, Poll, TimeOut, Collect, Goto, HostTypes
<1>2. \A g, S : HasSaid(g, S)' <=> HasSaid(g, S)
  BY <1>1, SaidStays
<1> DEFINE Ends ==
      /\ pc'[h] = "report" /\ note'[h] # "none" => HasSaid(h, Terminal)
      /\ backend[h] = "local" => pc'[h] \notin {"apply", "wait", "collect"}
      /\ backend[h] = "local" /\ (pc'[h] = "staged" => note'[h] = "none") /\ pc'[h] \in {"submit", "stage", "staged"}
           => ~HasSaid(h, {"started"})
      /\ pc'[h] = "returned" => HasSaid(h, Terminal)
      /\ pc'[h] = "raised" /\ backend[h] = "local" /\ HasSaid(h, {"started"}) => HasSaid(h, Terminal)
<1>3. Ends
  <2>1. CASE Record(h)
    <3>1. pc'[h] = After(h) /\ note'[h] = "none" /\ note[h] # "none" /\ pc[h] \notin Final
      BY <2>1 DEF Record, HostTypes
    <3>2. pc[h] \in {"submit", "staged", "report"} /\ note[h] = Reports(h)
      BY <3>1 DEF Ending, Noted
    <3>3. CASE pc[h] = "submit"
      <4>1. After(h) = IF backend[h] = "local" THEN "stage" ELSE "apply"
        BY <3>2, <3>3 DEF After, Reports
      <4>2. QED
        BY <3>1, <3>3, <4>1 DEF Ending, Closing
    <3>4. CASE pc[h] = "staged"
      <4>1. After(h) = IF backend[h] = "local" THEN "launch" ELSE "wait"
        BY <3>2, <3>4 DEF After, Reports
      <4>2. QED
        BY <3>1, <3>4, <4>1
    <3>5. CASE pc[h] = "report"
      <4>1. After(h) \in {"raised", "returned"}
        BY <3>2, <3>5 DEF After, Reports
      <4>2. HasSaid(h, Terminal)
        BY <3>1, <3>5 DEF Ending, Closing
      <4>3. QED
        BY <3>1, <4>1, <4>2
    <3>6. QED
      BY <3>2, <3>3, <3>4, <3>5
  <2>2. CASE Lose(h) \/ Hang(h)
    BY <2>2 DEF Lose, Hang, HostTypes
  <2>3. CASE Stage(h)
    BY <2>3 DEF Stage, Goto, HostTypes, Ending, Closing
  <2>4. CASE Launch(h)
    BY <2>4 DEF Launch, Goto, HostTypes
  <2>5. CASE Apply(h) \/ Poll(h) \/ TimeOut(h) \/ Collect(h)
    <3>1. backend[h] # "local"
      BY <2>5 DEF Apply, Poll, TimeOut, Collect, Ending, Closing
    <3>2. note'[h] = "none" /\ pc'[h] # "returned"
      BY <2>5 DEF Apply, Poll, TimeOut, Collect, Goto, HostTypes
    <3>3. QED
      BY <3>1, <3>2
  <2>6. QED
    BY <2>1, <2>2, <2>3, <2>4, <2>5 DEF HostStep
<1>4. \A g \in Hosts \ {h} :
        /\ pc'[g] = "report" /\ note'[g] # "none" => HasSaid(g, Terminal)
        /\ backend[g] = "local" => pc'[g] \notin {"apply", "wait", "collect"}
        /\ backend[g] = "local" /\ (pc'[g] = "staged" => note'[g] = "none") /\ pc'[g] \in {"submit", "stage", "staged"}
             => ~HasSaid(g, {"started"})
        /\ pc'[g] = "returned" => HasSaid(g, Terminal)
        /\ pc'[g] = "raised" /\ backend[g] = "local" /\ HasSaid(g, {"started"}) => HasSaid(g, Terminal)
  BY <1>1 DEF Ending, Closing, RunsAreClosed
<1>5. QED
  BY <1>1, <1>2, <1>3, <1>4 DEF Closing, RunsAreClosed

LEMMA EndingStep == Inv /\ Ending /\ [Next]_vars => Ending'
<1> SUFFICES ASSUME Inv, Ending, [Next]_vars PROVE Ending'
  OBVIOUS
<1>1. Noted'
  BY NotedStep DEF Ending
<1>2. CASE \E h \in Hosts : HostStep(h) \/ Lose(h) \/ Hang(h)
  BY <1>1, <1>2, EndingPublish, EndingMoves DEF Ending
<1>3. ASSUME UNCHANGED <<pc, note, backend, log>>
      PROVE  Ending'
  BY <1>1, <1>3 DEF Ending, Closing, RunsAreClosed, HasSaid
<1>4. ASSUME NEW j \in Jobs, PodStep(j) PROVE Ending'
  BY <1>3, <1>4 DEF PodStep, StartPod, PodRuns, PodPrints, PodExits, KillPod, runVars
<1>5. ASSUME NEW s \in Subscribers, ReaderStep(s) \/ Stop(s) PROVE Ending'
  BY <1>3, <1>5 DEF ReaderStep, Fetch, Handle, Ack, Stop, ReadOnly, runVars
<1>6. CASE UNCHANGED vars
  BY <1>3, <1>6 DEF vars, runVars
<1>7. QED
  BY <1>2, <1>4, <1>5, <1>6 DEF Next

LEMMA EndingHolds == Spec => []Ending
<1>1. Init => Ending
  <2> SUFFICES ASSUME Init PROVE Ending
    OBVIOUS
  <2>1. \A h \in Hosts : pc[h] \in {"submit", "lost"} /\ note[h] = "none"
    BY DEF Init
  <2>2. log = <<>>
    BY DEF Init
  <2>3. QED
    BY <2>1, <2>2 DEF Ending, Noted, Closing, RunsAreClosed, HasSaid
<1>2. QED
  BY <1>1, EndingStep, Invariance, PTL DEF Spec

(* Where "completed or failed after started" does hold (_run.py:107): for  *)
(* every submit that returns, and for the local backend whatever raises.   *)
THEOREM ReturnedRunsAreClosed == Spec => []RunsAreClosed
<1>1. Ending => RunsAreClosed
  BY DEF Ending
<1>2. QED
  BY <1>1, EndingHolds, PTL

(* The calls a submit has left, at most: two for a transition, one for any *)
(* other step of the backend.                                              *)
Remaining ==
  [submit |-> 7, stage |-> 6, apply |-> 6, staged |-> 5, launch |-> 4, wait |-> 4, collect |-> 3,
   report |-> 2, returned |-> 0, raised |-> 0, lost |-> 0, hung |-> 0]
Left(h) == 2 * Remaining[pc[h]] + (IF note[h] = "none" THEN 1 ELSE 0)

(* Every step of a submit brings its end nearer and no step of anyone else *)
(* takes it farther away: no wait, retry or fault makes it begin again.    *)
Shrinks(h) ==
  IF <<pc[h], note[h]>>' = <<pc[h], note[h]>> THEN Left(h)' = Left(h) ELSE Left(h)' < Left(h)
AllShrink == \A h \in Hosts : Shrinks(h)
SubmitShrinks == [][AllShrink]_vars

(* The safety half of SubmitEnds: from any state a submit has at most      *)
(* fifteen steps left, and every one it takes leaves it fewer, whatever    *)
(* the cluster, the broker or other hosts do in between.  With the         *)
(* fairness of HostStep that is an end, unless a call of its own hangs:    *)
(* nothing in the code bounds the one step that is under way.              *)
THEOREM SubmitIsBounded == Spec => SubmitShrinks
<1>1. ASSUME NEW h \in Hosts, pc'[h] = pc[h], note'[h] = note[h] PROVE Shrinks(h)
  BY <1>1 DEF Left, Shrinks
<1>2. ASSUME Inv, Ending, NEW h \in Hosts, HostStep(h) \/ Lose(h) \/ Hang(h) PROVE \A g \in Hosts : Shrinks(g)
  <2>0. /\ pc \in [Hosts -> Places] /\ note \in [Hosts -> Statuses \cup {"none"}]
        /\ \A g \in Hosts : Remaining[pc[g]] \in Nat
    BY <1>2 DEF Inv, HostTypes, Remaining, Places, Final
  <2>1. \A g \in Hosts \ {h} : pc'[g] = pc[g] /\ note'[g] = note[g]
    BY <1>2, <2>0 DEF HostStep, Publish, Lose, Hang, Record, Stage, Launch, Apply, Poll, TimeOut, Collect, Goto
  <2>2. Left(h)' = 2 * Remaining[pc'[h]] + (IF note'[h] = "none" THEN 1 ELSE 0)
    BY DEF Left
  <2>3. Left(h)' < Left(h)
    <3>1. CASE Publish(h)
      <4>1. note[h] = "none" /\ pc'[h] = pc[h] /\ note'[h] # "none"
        BY <2>0, <3>1 DEF Publish, Reports
      <4>2. QED
        BY <2>2, <3>1, <4>1 DEF Left, Publish, Remaining
    <3>2. CASE Record(h)
      <4>1. pc'[h] = After(h) /\ note'[h] = "none" /\ note[h] # "none" /\ pc[h] \notin Final
        BY <2>0, <3>2 DEF Record
      <4>2. pc[h] \in {"submit", "staged", "report"} /\ note[h] = Reports(h)
        BY <1>2, <4>1 DEF Ending, Noted
      <4>3. \/ pc[h] = "submit" /\ pc'[h] \in {"stage", "apply"}
            \/ pc[h] = "staged" /\ pc'[h] \in {"launch", "wait"}
            \/ pc[h] = "report" /\ pc'[h] \in {"raised", "returned"}
        BY <4>1, <4>2 DEF After, Reports
      <4>4. QED
        BY <2>2, <4>1, <4>3 DEF Left, Remaining
    <3>3. CASE Lose(h) \/ Hang(h)
      <4>1. pc[h] \in {"submit", "stage", "staged", "launch", "apply", "wait", "collect", "report"}
            /\ pc'[h] \in {"lost", "hung"} /\ note'[h] = note[h]
        BY <2>0, <3>3 DEF Lose, Hang, Places
      <4>2. QED
        BY <2>2, <4>1 DEF Left, Remaining
    <3>4. CASE Stage(h) \/ Launch(h) \/ Apply(h) \/ Poll(h) \/ TimeOut(h) \/ Collect(h)
      <4>1. /\ note[h] = "none" /\ note'[h] = "none"
            /\ \/ pc[h] = "stage" /\ pc'[h] \in {"staged", "raised"}
               \/ pc[h] = "launch" /\ pc'[h] = "report"
               \/ pc[h] = "apply" /\ pc'[h] \in {"staged", "raised"}
               \/ pc[h] = "wait" /\ pc'[h] \in {"collect", "raised"}
               \/ pc[h] = "collect" /\ pc'[h] \in {"report", "raised"}
        BY <2>0, <3>4 DEF Stage, Launch, Apply, Poll, TimeOut, Collect, Goto
      <4>2. QED
        BY <2>2, <4>1 DEF Left, Remaining
    <3>5. QED
      BY <1>2, <3>1, <3>2, <3>3, <3>4 DEF HostStep
  <2>4. \A g \in Hosts \ {h} : Shrinks(g)
    BY <1>1, <2>1
  <2>5. Shrinks(h)
    <3>1. Left(h) \in Int
      BY <2>0 DEF Left
    <3>2. <<pc[h], note[h]>>' # <<pc[h], note[h]>>
      BY <2>3, <3>1 DEF Left
    <3>3. QED
      BY <2>3, <3>2 DEF Shrinks
  <2>6. QED
    BY <2>4, <2>5
<1>3. ASSUME UNCHANGED <<pc, note>> PROVE \A g \in Hosts : Shrinks(g)
  BY <1>1, <1>3
<1>4. Inv /\ Ending /\ [Next]_vars => [AllShrink]_vars
  <2> SUFFICES ASSUME Inv, Ending, Next PROVE \A g \in Hosts : Shrinks(g)
    BY DEF AllShrink
  <2>1. ASSUME NEW j \in Jobs, PodStep(j) PROVE UNCHANGED <<pc, note>>
    BY <2>1 DEF PodStep, StartPod, PodRuns, PodPrints, PodExits, KillPod, runVars
  <2>2. ASSUME NEW s \in Subscribers, ReaderStep(s) \/ Stop(s) PROVE UNCHANGED <<pc, note>>
    BY <2>2 DEF ReaderStep, Fetch, Handle, Ack, Stop, ReadOnly, runVars
  <2>3. QED
    BY <1>2, <1>3, <2>1, <2>2 DEF Next
<1>5. QED
  BY <1>4, EndingHolds, Invariance, PTL DEF Spec, SubmitShrinks
=============================================================================
