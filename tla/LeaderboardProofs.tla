-------------------------- MODULE LeaderboardProofs --------------------------
(***************************************************************************)
(* Proofs about the leaderboard service, for every finite set of handlers  *)
(* and every set of requests.                                              *)
(*                                                                         *)
(* Two facts do the work.  A digest that a handler has in hand, or that    *)
(* the board names, is stored, because nothing is ever taken out of the    *)
(* object store.  And while no two envelopes have been in the queue's      *)
(* window at once, the envelope at the head is the handler's own.          *)
(***************************************************************************)
EXTENDS Leaderboard, TLAPS, FiniteSetTheorems

-----------------------------------------------------------------------------
(* The invariant. *)

Working == {"taken", "running", "scored", "audited", "listed"}
Accepted == InQueue \cup Working
Admitted == {"authorized", "counted"} \cup Accepted

Lineage(e) ==
  /\ e.id[3] = "hub" => e.provenance = Bundle(e.id[1], e.id[2])
  /\ {e.provenance, e.trace} \subseteq objects \cup {Absent}

(* What a handler has in hand at each stage of its call. *)
InHand(h) ==
  /\ call[h].at \in Admitted => call[h].request \in Requests
  /\ call[h].at \in Working => call[h].job \in Tickets
  /\ call[h].at \in {"scored", "audited", "listed"} =>
       call[h].score \in Runs[Artifact(h)] \ {Crash}
  /\ call[h].at \in {"audited", "listed"} =>
       /\ call[h].integrity \in {"verified", "flagged"}
       /\ Bundle(Artifact(h), call[h].score) \in objects
  /\ call[h].at \in {"replaying", "retracting"} =>
       call[h].entry \in Entries /\ Lineage(call[h].entry)

Waiting == {h \in Handlers : call[h].at \in InQueue}

(* With one envelope at a time, the handler which waits is alone and the   *)
(* envelope is its own.  An envelope nobody waits for may be left.         *)
Single ==
  ~shared =>
    /\ \A h \in Waiting : Waiting = {h} /\ queue = <<ticket(call[h].request)>>
    /\ \A h \in Handlers : call[h].at \in Working => call[h].job = call[h].request

AllInHand == \A h \in Handlers : InHand(h)

Inv ==
  /\ TypeOK /\ AllInHand /\ LineageStored
  /\ NeverLost /\ Single /\ OwnResult /\ Attended

-----------------------------------------------------------------------------
(* Facts about the constants. *)

LEMMA InUnion ==
  ASSUME NEW S, NEW T \in S
  PROVE  T \subseteq UNION S
OBVIOUS

LEMMA RequestFacts ==
  ASSUME NEW r \in Requests
  PROVE  /\ r[2] \in Artifacts /\ r[1] \in Subjects /\ r \in Tickets
         /\ Runs[r[2]] \ {Crash} \subseteq Scores
<1>1. r[2] \in Artifacts /\ r[1] \in Subjects /\ r \in Tickets
  BY DEF Artifacts, Subjects, Tickets
<1>2. Runs[r[2]] \in {Runs[a] : a \in Artifacts}
  BY <1>1, Zenon
<1>3. Runs[r[2]] \subseteq UNION {Runs[a] : a \in Artifacts}
  BY <1>2, InUnion
<1> DEFINE all == UNION {Runs[a] : a \in Artifacts}
<1>4. Scores = all \ {Crash}
  BY DEF Scores
<1>5. Runs[r[2]] \subseteq all
  BY <1>3
<1> HIDE DEF all
<1>6. QED
  BY <1>1, <1>4, <1>5

LEMMA BundleFacts ==
  ASSUME NEW a \in Artifacts, NEW score \in Scores, NEW source \in {"hub", "local"}
  PROVE  /\ Bundle(a, score) \in Bundles
         /\ SubmissionId(a, score, source) \in Ids
         /\ SubmissionId(a, score, source)[1] = a
         /\ SubmissionId(a, score, source)[2] = score
         /\ SubmissionId(a, score, source)[3] = source
BY DEF Bundle, Bundles, SubmissionId, Ids

LEMMA NewCallType == NewCall \in Calls
BY DEF NewCall, Calls, Stages

LEMMA CallFacts ==
  ASSUME TypeOK, NEW h \in Handlers
  PROVE  /\ call \in [Handlers -> Calls] /\ call[h] \in Calls
         /\ call[h].at \in Stages /\ call[h].request \in Requests \cup {Absent}
         /\ call[h].intake \in {"hub", "local", Absent} /\ call[h].job \in Tickets \cup {Absent}
         /\ call[h].score \in Scores \cup {Absent}
         /\ call[h].integrity \in {"verified", "flagged", Absent}
         /\ call[h].entry \in Entries \cup {Absent}
BY DEF TypeOK, Calls

(* A handler's call changes, and no other. *)
Turns(h, c) ==
  /\ c \in Calls
  /\ call' = [call EXCEPT ![h] = c]

LEMMA Turned ==
  ASSUME TypeOK, NEW h \in Handlers, NEW c, Turns(h, c)
  PROVE  /\ call' \in [Handlers -> Calls]
         /\ call'[h] = c
         /\ \A g \in Handlers : g # h => call'[g] = call[g]
BY DEF TypeOK, Turns

LEMMA DoneTurns ==
  ASSUME NEW h \in Handlers, Done(h)
  PROVE  Turns(h, [NewCall EXCEPT !.at = "done"])
<1>1. [NewCall EXCEPT !.at = "done"] \in Calls
  BY NewCallType DEF Calls, Stages
<1>2. QED
  BY <1>1 DEF Done, Turns

LEMMA GoesTurns ==
  ASSUME TypeOK, NEW h \in Handlers, NEW stage \in Stages, Goes(h, stage)
  PROVE  Turns(h, [call[h] EXCEPT !.at = stage])
<1>1. call[h] \in Calls
  BY CallFacts
<1>2. [call[h] EXCEPT !.at = stage] \in Calls
  BY <1>1 DEF Calls
<1>3. call' = [call EXCEPT ![h] = [call[h] EXCEPT !.at = stage]]
  BY DEF Goes
<1>4. QED
  BY <1>2, <1>3 DEF Turns

LEMMA DoneHasNothing ==
  ASSUME NEW h \in Handlers, TypeOK, Done(h)
  PROVE  call'[h].at = "done" /\ InHand(h)' /\ \A j \in Tickets : ~Works(h, j)'
<1>1. call'[h].at = "done"
  BY DoneTurns, Turned DEF NewCall
<1>2. QED
  BY <1>1 DEF InHand, Works, Admitted, Accepted, Working, InQueue

-----------------------------------------------------------------------------
(* What the handlers have in hand, and what the board shows, is kept when  *)
(* one of them moves.                                                      *)

LEMMA OthersKeep ==
  ASSUME Inv, NEW h \in Handlers, NEW c, Turns(h, c), objects \subseteq objects', InHand(h)'
  PROVE  AllInHand'
<1> SUFFICES ASSUME NEW g \in Handlers, g # h PROVE InHand(g)'
  BY DEF AllInHand
<1>1. call'[g] = call[g] /\ InHand(g)
  BY Turned DEF Inv, AllInHand
<1>2. QED
  BY <1>1 DEF InHand, Lineage, Artifact, Bundle

LEMMA BoardKept ==
  ASSUME Inv, objects \subseteq objects',
         \A e \in board' : e \in board \/ Lineage(e)'
  PROVE  LineageStored'
BY DEF Inv, LineageStored, Lineage, Bundle

(* The queue and who waits on it. *)
LEMMA WaitingFinite ==
  IsFiniteSet(Waiting) /\ Cardinality(Waiting) \in Nat /\ (Cardinality(Waiting) = 0 <=> Waiting = {})
<1>1. IsFiniteSet(Waiting)
  BY ServiceAssumption, FS_Subset DEF Waiting
<1>2. QED
  BY <1>1, FS_CardinalityType, FS_EmptySet

LEMMA QueueKept ==
  ASSUME Inv, queue' = queue, Waiting' = Waiting, shared' = shared,
         \A h \in Handlers :
           /\ h \in Waiting => call'[h].request = call[h].request
           /\ ~shared /\ call'[h].at \in Working => call'[h].job = call'[h].request
  PROVE  NeverLost' /\ Single'
<1>1. NeverLost'
  BY DEF Inv, NeverLost, Waiting
<1>2. Single'
  <2>1. \A h \in Handlers : h \in Waiting => ticket(call[h].request)' = ticket(call[h].request)
    BY DEF ticket
  <2>2. QED
    BY <2>1 DEF Inv, Single, Waiting
<1>3. QED
  BY <1>1, <1>2

(* A handler outside the queue moves and stays outside. *)
LEMMA QueueAside ==
  ASSUME Inv, NEW h \in Handlers, NEW c, Turns(h, c), queue' = queue, shared' = shared,
         call[h].at \notin InQueue, c.at \notin InQueue,
         ~shared /\ c.at \in Working => c.job = c.request
  PROVE  NeverLost' /\ Single'
<1>1. call'[h] = c /\ \A g \in Handlers : g # h => call'[g] = call[g]
  BY Turned DEF Inv
<1>2. Waiting' = Waiting
  BY <1>1 DEF Waiting
<1>3. \A g \in Handlers :
        /\ g \in Waiting => call'[g].request = call[g].request
        /\ ~shared /\ call'[g].at \in Working => call'[g].job = call'[g].request
  BY <1>1 DEF Waiting, Inv, Single
<1>4. QED
  BY <1>2, <1>3, QueueKept

-----------------------------------------------------------------------------
(* The jobs: what a handler writes is its own, and a job it leaves is       *)
(* settled.                                                                 *)

JobMove(h) ==
  \/ jobs' = jobs
  \/ \E j \in Tickets, status \in Terminal \cup Active, result \in Ids \cup {Absent} :
       /\ _transition(j, status, result)
       /\ ~shared' => /\ result # Absent => result[1] = j[2]
                      /\ status \in Active => Works(h, j)'

Leaves(h) == \A j \in Tickets :
  Works(h, j) /\ ~Works(h, j)' => jobs'[j].status \notin Active \/ j \in abandoned'

(* A job is no longer abandoned only when a handler takes it up again. *)
AbandonedKept(h) ==
  abandoned' \subseteq Tickets /\ \A j \in abandoned : j \in abandoned' \/ Works(h, j)'

LEMMA TransitionFacts ==
  ASSUME TypeOK, NEW j \in Tickets, NEW status \in Terminal \cup Active, NEW result \in Ids \cup {Absent},
         _transition(j, status, result)
  PROVE  /\ jobs' \in [Tickets -> JobRecords]
         /\ jobs'[j].status = status /\ jobs'[j].result = result
         /\ \A k \in Tickets : k # j => jobs'[k] = jobs[k]
<1>1. [status |-> status, result |-> result] \in JobRecords
  BY DEF JobRecords
<1>2. jobs \in [Tickets -> JobRecords]
  BY DEF TypeOK
<1>3. QED
  BY <1>1, <1>2 DEF _transition

LEMMA JobsKept ==
  ASSUME Inv, NEW h \in Handlers, NEW c, Turns(h, c), shared => shared', JobMove(h),
         ~shared' => Leaves(h), AbandonedKept(h)
  PROVE  OwnResult' /\ Attended' /\ jobs' \in [Tickets -> JobRecords]
<1>1. jobs' \in [Tickets -> JobRecords]
  BY TransitionFacts DEF JobMove, Inv, TypeOK
<1>2. ASSUME NEW j \in Tickets, ~shared'
      PROVE  \/ jobs'[j] = jobs[j]
             \/ /\ jobs'[j].result # Absent => jobs'[j].result[1] = j[2]
                /\ jobs'[j].status \in Active => Works(h, j)'
  <2>1. CASE jobs' = jobs
    BY <2>1
  <2>2. CASE \E k \in Tickets, status \in Terminal \cup Active, result \in Ids \cup {Absent} :
               /\ _transition(k, status, result)
               /\ ~shared' => /\ result # Absent => result[1] = k[2]
                              /\ status \in Active => Works(h, k)'
    <3>1. PICK k \in Tickets, status \in Terminal \cup Active, result \in Ids \cup {Absent} :
               /\ _transition(k, status, result)
               /\ result # Absent => result[1] = k[2]
               /\ status \in Active => Works(h, k)'
      BY <2>2, <1>2
    <3>2. CASE k = j
      BY <3>1, <3>2, TransitionFacts DEF Inv
    <3>3. CASE k # j
      BY <3>1, <3>3, TransitionFacts DEF Inv
    <3>4. QED
      BY <3>2, <3>3
  <2>3. QED
    BY <2>1, <2>2 DEF JobMove
<1>3. OwnResult'
  BY <1>2 DEF OwnResult, Inv
<1>4. Attended'
  <2> SUFFICES ASSUME ~shared', NEW j \in Tickets, jobs'[j].status \in Active, j \notin abandoned'
               PROVE  \E g \in Handlers : Works(g, j)'
    BY DEF Attended
  <2>1. CASE jobs'[j] # jobs[j]
    BY <2>1, <1>2
  <2>2. CASE jobs'[j] = jobs[j] /\ j \in abandoned
    BY <2>2 DEF AbandonedKept
  <2>3. CASE jobs'[j] = jobs[j] /\ j \notin abandoned
    <3>1. PICK g \in Handlers : Works(g, j)
      BY <2>3 DEF Inv, Attended
    <3>2. CASE g = h
      BY <2>3, <3>1, <3>2 DEF Leaves
    <3>3. CASE g # h
      <4>1. call'[g] = call[g]
        BY <3>3, Turned DEF Inv
      <4>2. Works(g, j)'
        BY <3>1, <4>1 DEF Works, ticket
      <4>3. QED
        BY <4>2
    <3>4. QED
      BY <3>2, <3>3
  <2>4. QED
    BY <2>1, <2>2, <2>3
<1>5. QED
  BY <1>1, <1>3, <1>4

LEMMA NoneLeft ==
  ASSUME Inv, NEW h \in Handlers, abandoned' = abandoned
  PROVE  AbandonedKept(h)
BY DEF AbandonedKept, Inv, TypeOK

-----------------------------------------------------------------------------
(* The actions. *)

LEMMA InitInv == Init => Inv
<1> SUFFICES ASSUME Init PROVE Inv
  OBVIOUS
<1> USE DEF Init
<1>1. call \in [Handlers -> Calls] /\ \A h \in Handlers : call[h].at = "new"
  BY NewCallType DEF NewCall
<1>2. jobs \in [Tickets -> JobRecords] /\ \A j \in Tickets : jobs[j].result = Absent /\ jobs[j].status = "unknown"
  BY DEF JobRecords
<1>3. TypeOK
  <2>1. count \in [Subjects -> 0..Limit]
    BY ServiceAssumption
  <2>2. queue = <<>> /\ board = {} /\ objects = {} /\ shared = FALSE /\ abandoned = {}
    OBVIOUS
  <2>3. queue \in Seq(Tickets)
    BY <2>2
  <2>4. shared \in BOOLEAN
    BY <2>2, Zenon
  <2>5. QED
    BY <1>1, <1>2, <2>1, <2>2, <2>3, <2>4 DEF TypeOK
<1>4. AllInHand
  BY <1>1 DEF AllInHand, InHand, Admitted, Accepted, Working, InQueue
<1>5. LineageStored
  BY DEF LineageStored
<1>6. Waiting = {}
  BY <1>1 DEF Waiting, InQueue
<1>7. NeverLost
  <2>1. Cardinality(Waiting) = 0 /\ Len(queue) = 0
    BY <1>6, WaitingFinite
  <2>2. QED
    BY <2>1 DEF NeverLost, Waiting
<1>8. Single
  BY <1>1, <1>6 DEF Single, Working
<1>9. OwnResult /\ Attended
  BY <1>2 DEF OwnResult, Attended, Active
<1>10. QED
  BY <1>3, <1>4, <1>5, <1>7, <1>8, <1>9 DEF Inv

(* A step of a handler that has not published, or that leaves the service:  *)
(* only what it writes to the board and the counts is left to check.        *)
LEMMA AsideInv ==
  ASSUME Inv, NEW h \in Handlers, NEW c, Turns(h, c),
         call[h].at \notin InQueue, c.at \notin InQueue, call[h].at \notin Working, c.at \notin Working,
         UNCHANGED <<queue, shared, abandoned>>, objects \subseteq objects', InHand(h)', JobMove(h),
         count' \in [Subjects -> 0..Limit], objects' \subseteq Bundles \cup {Replay},
         board' \subseteq Entries, \A e \in board' : e \in board \/ Lineage(e)'
  PROVE  Inv'
<1>1. AllInHand' /\ LineageStored'
  BY OthersKeep, BoardKept
<1>2. NeverLost' /\ Single'
  BY QueueAside
<1>3. \A j \in Tickets : ~Works(h, j)
  BY DEF Works, Working
<1>4. OwnResult' /\ Attended' /\ jobs' \in [Tickets -> JobRecords]
  BY <1>3, JobsKept, NoneLeft DEF Leaves
<1>5. TypeOK'
  BY <1>4, Turned DEF Inv, TypeOK
<1>6. QED
  BY <1>1, <1>2, <1>4, <1>5 DEF Inv

LEMMA Kept ==
  ASSUME Inv
  PROVE  /\ count \in [Subjects -> 0..Limit] /\ objects \subseteq Bundles \cup {Replay}
         /\ board \subseteq Entries /\ TypeOK
BY DEF Inv, TypeOK

LEMMA AuthorizeInv ==
  ASSUME Inv, NEW h \in Handlers, Authorize(h)
  PROVE  Inv'
<1>1. PICK r \in Requests, intake \in {"hub", "local"} :
        IF WithinQuota(r[1])
        THEN call' = [call EXCEPT ![h] = [NewCall EXCEPT
                       !.at = "authorized", !.request = r, !.intake = intake]]
        ELSE Done(h)
  BY DEF Authorize
<1>2. call[h].at = "new" /\ UNCHANGED <<jobs, queue, count, board, objects, shared, abandoned>>
  BY DEF Authorize
<1>3. JobMove(h)
  BY <1>2 DEF JobMove
<1> DEFINE c == [NewCall EXCEPT !.at = "authorized", !.request = r, !.intake = intake]
<1>4. CASE call' = [call EXCEPT ![h] = c]
  <2>1. c \in Calls /\ c.at = "authorized" /\ c.request = r
    BY NewCallType DEF Calls, Stages, NewCall
  <2>2. Turns(h, c)
    BY <1>4, <2>1 DEF Turns
  <2> HIDE DEF c
  <2>3. call'[h] = c
    BY <2>2, Turned, Kept
  <2>4. InHand(h)'
    BY <2>1, <2>3 DEF InHand, Working, Admitted, Accepted, InQueue
  <2>5. QED
    BY <1>2, <1>3, <2>1, <2>2, <2>4, AsideInv, Kept DEF InQueue, Working
<1>5. CASE Done(h)
  <2>1. Turns(h, [NewCall EXCEPT !.at = "done"]) /\ InHand(h)'
    BY <1>5, DoneTurns, DoneHasNothing, Kept
  <2>2. [NewCall EXCEPT !.at = "done"].at = "done"
    BY DEF NewCall
  <2>3. QED
    BY <1>2, <1>3, <2>1, <2>2, AsideInv, Kept DEF InQueue, Working
<1>6. QED
  BY <1>1, <1>4, <1>5

LEMMA RejectMoves ==
  ASSUME NEW h \in Handlers, NEW j \in Tickets, Reject(h, j)
  PROVE  JobMove(h) /\ Done(h)
BY DEF Reject, JobMove, Terminal, Active

LEMMA RejectAside ==
  ASSUME Inv, NEW h \in Handlers, Done(h), JobMove(h),
         call[h].at \notin InQueue, call[h].at \notin Working,
         UNCHANGED <<queue, objects, shared, abandoned>>, count' \in [Subjects -> 0..Limit],
         board' \subseteq Entries, \A e \in board' : e \in board \/ Lineage(e)'
  PROVE  Inv'
<1> DEFINE c == [NewCall EXCEPT !.at = "done"]
<1>1. Turns(h, c) /\ InHand(h)' /\ c.at = "done"
  BY DoneTurns, DoneHasNothing, Kept DEF NewCall
<1> HIDE DEF c
<1>2. QED
  BY <1>1, AsideInv, Kept DEF InQueue, Working

LEMMA RateLimitInv ==
  ASSUME Inv, NEW h \in Handlers, RateLimit(h)
  PROVE  Inv'
<1>1. call[h].at = "authorized" /\ UNCHANGED <<queue, board, objects, shared, abandoned>>
      /\ call[h].request \in Requests
  BY DEF RateLimit, Inv, AllInHand, InHand, Admitted
<1>2. CASE count[Subject(h)] < Limit
  <2> DEFINE c == [call[h] EXCEPT !.at = "counted"]
  <2>1. count' = [count EXCEPT ![Subject(h)] = @ + 1] /\ Goes(h, "counted") /\ jobs' = jobs
    BY <1>2 DEF RateLimit
  <2>2. Turns(h, c)
    BY <2>1, GoesTurns, Kept DEF Stages
  <2>3. c.at = "counted" /\ c.request = call[h].request
    BY CallFacts, Kept DEF Calls
  <2> HIDE DEF c
  <2>4. call'[h] = c
    BY <2>2, Turned, Kept
  <2>5. InHand(h)'
    BY <1>1, <2>3, <2>4 DEF InHand, Working, Admitted, Accepted, InQueue
  <2>6. count' \in [Subjects -> 0..Limit]
    <3>1. Subject(h) \in Subjects /\ count \in [Subjects -> 0..Limit] /\ Limit \in Nat
      BY <1>1, RequestFacts, Kept, ServiceAssumption DEF Subject
    <3>2. count[Subject(h)] + 1 \in 0..Limit
      BY <1>2, <3>1
    <3>3. QED
      BY <2>1, <3>1, <3>2
  <2>7. JobMove(h)
    BY <2>1 DEF JobMove
  <2>8. QED
    BY <1>1, <2>2, <2>3, <2>5, <2>6, <2>7, AsideInv, Kept DEF InQueue, Working
<1>3. CASE ~(count[Subject(h)] < Limit)
  <2>1. Done(h) /\ JobMove(h) /\ count' = count
    <3>1. ticket(call[h].request) \in Tickets
      BY <1>1, RequestFacts DEF ticket
    <3>2. CASE call[h].intake = "hub"
      BY <1>3, <3>1, <3>2, RejectMoves DEF RateLimit
    <3>3. CASE call[h].intake # "hub"
      BY <1>3, <3>3 DEF RateLimit, JobMove
    <3>4. QED
      BY <3>2, <3>3
  <2>2. QED
    BY <1>1, <2>1, RejectAside, Kept DEF InQueue, Working
<1>4. QED
  BY <1>2, <1>3

LEMMA ResetWindowInv ==
  ASSUME Inv, NEW s \in Subjects, ResetWindow(s)
  PROVE  Inv'
<1>1. UNCHANGED <<call, jobs, queue, board, objects, shared, abandoned>> /\ count' = [count EXCEPT ![s] = 0]
  BY DEF ResetWindow
<1>2. count' \in [Subjects -> 0..Limit]
  BY <1>1, Kept, ServiceAssumption
<1>3. TypeOK'
  BY <1>1, <1>2 DEF Inv, TypeOK
<1>4. AllInHand' /\ LineageStored'
  BY <1>1 DEF Inv, AllInHand, InHand, LineageStored, Lineage, Artifact, Bundle
<1>5. NeverLost' /\ Single'
  BY <1>1 DEF Inv, NeverLost, Single, Waiting, ticket
<1>6. OwnResult' /\ Attended'
  BY <1>1 DEF Inv, OwnResult, Attended, Works, ticket
<1>7. QED
  BY <1>3, <1>4, <1>5, <1>6 DEF Inv

LEMMA IntakeRejectsInv ==
  ASSUME Inv, NEW h \in Handlers, IntakeRejects(h)
  PROVE  Inv'
<1>1. /\ call[h].at = "counted" /\ call[h].request \in Requests
      /\ Reject(h, ticket(call[h].request))
      /\ UNCHANGED <<queue, count, board, objects, shared, abandoned>>
  BY DEF IntakeRejects, Inv, AllInHand, InHand, Admitted
<1>2. ticket(call[h].request) \in Tickets
  BY <1>1, RequestFacts DEF ticket
<1>3. QED
  BY <1>1, <1>2, RejectMoves, RejectAside, Kept DEF InQueue, Working

LEMMA EntryAdded ==
  ASSUME Inv, NEW e \in Entries, board' = Added(board, e), Lineage(e)'
  PROVE  board' \subseteq Entries /\ \A x \in board' : x \in board \/ Lineage(x)'
<1>1. \A x \in board' : x \in board \/ x = e
  BY DEF Added
<1>2. QED
  BY <1>1, Kept

LEMMA SubmitLocalInv ==
  ASSUME Inv, NEW h \in Handlers, SubmitLocal(h)
  PROVE  Inv'
<1>1. /\ call[h].at = "counted" /\ Done(h)
      /\ UNCHANGED <<jobs, queue, count, objects, shared, abandoned>>
  BY DEF SubmitLocal
<1>2. call[h].request \in Requests /\ Artifact(h) \in Artifacts
  BY <1>1, RequestFacts DEF Inv, AllInHand, InHand, Admitted, Artifact
<1>3. board' \subseteq Entries /\ \A e \in board' : e \in board \/ Lineage(e)'
  <2>1. CASE board' = board
    BY <2>1, Kept
  <2>2. CASE \E score \in Runs[Artifact(h)] \ {Crash}, again \in Runs[Artifact(h)] \ {Crash} :
               board' = Added(board,
                 [id |-> SubmissionId(Artifact(h), score, "local"), trace |-> Absent, provenance |-> Absent,
                  integrity |-> IF again = score THEN "verified" ELSE "flagged"])
    <3>1. PICK score \in Runs[Artifact(h)] \ {Crash}, verdict \in {"verified", "flagged"} : \E e :
            /\ e = [id |-> SubmissionId(Artifact(h), score, "local"), trace |-> Absent,
                    provenance |-> Absent, integrity |-> verdict]
            /\ board' = Added(board, e)
      BY <2>2
    <3> PICK e :
            /\ e = [id |-> SubmissionId(Artifact(h), score, "local"), trace |-> Absent,
                    provenance |-> Absent, integrity |-> verdict]
            /\ board' = Added(board, e)
      BY <3>1
    <3>2. score \in Scores
      BY <1>2, RequestFacts DEF Artifact
    <3>3. PICK id \in Ids : id = SubmissionId(Artifact(h), score, "local") /\ id[3] = "local"
      BY <1>2, <3>2, BundleFacts
    <3>4. e = [id |-> id, trace |-> Absent, provenance |-> Absent, integrity |-> verdict]
      BY <3>3
    <3>5. e \in Entries /\ Lineage(e)'
      BY <3>3, <3>4 DEF Entries, Lineage
    <3>6. QED
      BY <3>5, EntryAdded
  <2>3. QED
    BY <2>1, <2>2 DEF SubmitLocal
<1>4. JobMove(h)
  BY <1>1 DEF JobMove
<1>5. QED
  BY <1>1, <1>3, <1>4, RejectAside, Kept DEF InQueue, Working

LEMMA ReadEntryInv ==
  ASSUME Inv, NEW h \in Handlers, NEW purpose \in {"replaying", "retracting"}, ReadEntry(h, purpose)
  PROVE  Inv'
<1>1. call[h].at = "new" /\ UNCHANGED <<jobs, queue, count, board, objects, shared, abandoned>>
  BY DEF ReadEntry
<1>2. PICK e \in board : call' = [call EXCEPT ![h] = [NewCall EXCEPT !.at = purpose, !.entry = e]]
  BY DEF ReadEntry
<1> PICK c : c = [NewCall EXCEPT !.at = purpose, !.entry = e] /\ call' = [call EXCEPT ![h] = c]
  BY <1>2
<1>3. e \in Entries /\ Lineage(e)
  BY Kept DEF Inv, LineageStored, Lineage
<1>4. c \in Calls /\ c.at = purpose /\ c.entry = e
  BY <1>3, NewCallType DEF Calls, Stages, NewCall
<1>5. Turns(h, c) /\ call'[h] = c
  BY <1>4, Turned, Kept DEF Turns
<1>6. InHand(h)'
  BY <1>1, <1>3, <1>4, <1>5 DEF InHand, Lineage, Working, Admitted, Accepted, InQueue
<1>7. JobMove(h)
  BY <1>1 DEF JobMove
<1>8. QED
  BY <1>1, <1>4, <1>5, <1>6, <1>7, AsideInv, Kept DEF InQueue, Working

LEMMA AttachReplayInv ==
  ASSUME Inv, NEW h \in Handlers, AttachReplay(h)
  PROVE  Inv'
<1>1. /\ call[h].at = "replaying" /\ Done(h) /\ objects' = objects \cup {Replay}
      /\ UNCHANGED <<jobs, queue, count, shared, abandoned>>
  BY DEF AttachReplay
<1>2. PICK e : e = [call[h].entry EXCEPT !.trace = Replay] /\ board' = Added(board, e)
  BY DEF AttachReplay
<1>3. call[h].entry \in Entries /\ Lineage(call[h].entry)
  BY <1>1 DEF Inv, AllInHand, InHand
<1>4. e \in Entries /\ e.id = call[h].entry.id /\ e.provenance = call[h].entry.provenance /\ e.trace = Replay
  BY <1>2, <1>3 DEF Entries
<1>5. Lineage(e)'
  BY <1>1, <1>3, <1>4 DEF Lineage, Bundle
<1>6. board' \subseteq Entries /\ \A x \in board' : x \in board \/ Lineage(x)'
  BY <1>2, <1>4, <1>5, EntryAdded
<1>7. JobMove(h)
  BY <1>1 DEF JobMove
<1> DEFINE c == [NewCall EXCEPT !.at = "done"]
<1>8. Turns(h, c) /\ InHand(h)' /\ c.at = "done"
  BY <1>1, DoneTurns, DoneHasNothing, Kept DEF NewCall
<1>9. objects \subseteq objects' /\ objects' \subseteq Bundles \cup {Replay}
  BY <1>1, Kept
<1> HIDE DEF c
<1>10. QED
  BY <1>1, <1>6, <1>7, <1>8, <1>9, AsideInv, Kept DEF InQueue, Working

LEMMA RetractInv ==
  ASSUME Inv, NEW h \in Handlers, Retract(h)
  PROVE  Inv'
<1>1. /\ call[h].at = "retracting" /\ Done(h)
      /\ UNCHANGED <<jobs, queue, count, objects, shared, abandoned>>
      /\ board' \subseteq board
  BY DEF Retract
<1>2. JobMove(h)
  BY <1>1 DEF JobMove
<1>3. QED
  BY <1>1, <1>2, RejectAside, Kept DEF InQueue, Working

-----------------------------------------------------------------------------
(* At work on an envelope. *)

WorkKept == UNCHANGED <<queue, count, shared, abandoned>>

LEMMA WorkInv ==
  ASSUME Inv, NEW h \in Handlers, NEW c, Turns(h, c), WorkKept,
         call[h].at \in Working, c.at \in Working, c.request = call[h].request, c.job = call[h].job,
         objects \subseteq objects', objects' \subseteq Bundles \cup {Replay}, InHand(h)', JobMove(h),
         board' \subseteq Entries, \A e \in board' : e \in board \/ Lineage(e)'
  PROVE  Inv'
<1>1. call'[h] = c /\ UNCHANGED <<queue, count, shared, abandoned>> /\ call' \in [Handlers -> Calls]
  BY Turned, Kept DEF WorkKept
<1>2. AllInHand' /\ LineageStored'
  BY OthersKeep, BoardKept
<1>3. NeverLost' /\ Single'
  <2>1. call[h].at \notin InQueue /\ c.at \notin InQueue
    BY DEF Working, InQueue
  <2>2. ~shared => c.job = c.request
    BY DEF Inv, Single
  <2>3. QED
    BY <1>1, <2>1, <2>2, QueueAside
<1>4. Leaves(h)
  BY <1>1 DEF Leaves, Works, Working, InQueue, ticket
<1>5. OwnResult' /\ Attended' /\ jobs' \in [Tickets -> JobRecords]
  BY <1>1, <1>4, JobsKept, NoneLeft
<1>6. TypeOK'
  BY <1>1, <1>5 DEF Inv, TypeOK
<1>7. QED
  BY <1>2, <1>3, <1>5, <1>6 DEF Inv

LEMMA WorkDoneInv ==
  ASSUME Inv, NEW h \in Handlers, Done(h), WorkKept, call[h].at \in Working,
         objects \subseteq objects', objects' \subseteq Bundles \cup {Replay}, board' = board,
         NEW status \in Terminal, NEW result \in Ids \cup {Absent},
         _transition(call[h].job, status, result),
         ~shared => (result # Absent => result[1] = call[h].job[2])
  PROVE  Inv'
<1> DEFINE c == [NewCall EXCEPT !.at = "done"]
<1>1. Turns(h, c) /\ InHand(h)' /\ c.at = "done" /\ \A j \in Tickets : ~Works(h, j)'
  BY DoneTurns, DoneHasNothing, Kept DEF NewCall
<1> HIDE DEF c
<1>2. call'[h] = c /\ UNCHANGED <<queue, count, shared, abandoned>> /\ call' \in [Handlers -> Calls]
  BY <1>1, Turned, Kept DEF WorkKept
<1>3. AllInHand' /\ LineageStored'
  BY <1>1, OthersKeep, BoardKept
<1>4. NeverLost' /\ Single'
  BY <1>1, <1>2, QueueAside DEF Working, InQueue
<1>5. call[h].job \in Tickets /\ status \notin Active
  BY DEF Inv, AllInHand, InHand, Terminal, Active
<1>6. JobMove(h)
  BY <1>2, <1>5 DEF JobMove
<1>7. Leaves(h)
  <2> SUFFICES ASSUME NEW j \in Tickets, Works(h, j) PROVE jobs'[j].status \notin Active
    BY DEF Leaves
  <2>1. j = call[h].job
    BY DEF Works, Working, InQueue
  <2>2. QED
    BY <2>1, <1>5, TransitionFacts, Kept
<1>8. OwnResult' /\ Attended' /\ jobs' \in [Tickets -> JobRecords]
  BY <1>1, <1>2, <1>6, <1>7, JobsKept, NoneLeft
<1>9. TypeOK'
  BY <1>2, <1>8, Kept DEF TypeOK, Inv
<1>10. QED
  BY <1>3, <1>4, <1>8, <1>9 DEF Inv

LEMMA AtWork ==
  ASSUME Inv, NEW h \in Handlers, call[h].at \in Working
  PROVE  /\ call[h].request \in Requests /\ call[h].job \in Tickets
         /\ Artifact(h) \in Artifacts /\ Runs[Artifact(h)] \ {Crash} \subseteq Scores
         /\ call[h] \in Calls /\ InHand(h)
         /\ ~shared => call[h].job = call[h].request
<1>1. InHand(h) /\ call[h].request \in Requests /\ call[h].job \in Tickets
  BY DEF Inv, AllInHand, InHand, Admitted, Accepted
<1>2. QED
  BY <1>1, RequestFacts, CallFacts DEF Artifact, Inv, Single

(* A handler at work on a job moves that job on. *)
LEMMA MovesItsJob ==
  ASSUME Inv, NEW h \in Handlers, NEW c, call'[h] = c, call[h].at \in Working, c.at \in Working,
         c.job = call[h].job, NEW status \in Active, _transition(call[h].job, status, Absent)
  PROVE  JobMove(h)
<1>1. PICK j \in Tickets : j = call[h].job
  BY AtWork
<1>2. Works(h, j)'
  BY <1>1 DEF Works, Working
<1>3. _transition(j, status, Absent)
  BY <1>1
<1>4. status \in Terminal \cup Active /\ Absent \in Ids \cup {Absent}
  OBVIOUS
<1>5. QED
  BY <1>2, <1>3, <1>4, Zenon DEF JobMove

LEMMA MarkRunningInv ==
  ASSUME Inv, NEW h \in Handlers, MarkRunning(h)
  PROVE  Inv'
<1>1. /\ call[h].at = "taken" /\ _transition(call[h].job, "running", Absent) /\ Goes(h, "running")
      /\ UNCHANGED <<queue, count, board, objects, shared, abandoned>>
  BY DEF MarkRunning
<1> DEFINE c == [call[h] EXCEPT !.at = "running"]
<1>2. call[h].request \in Requests /\ call[h].job \in Tickets /\ call[h] \in Calls
  BY <1>1, AtWork DEF Working
<1>3. Turns(h, c) /\ c.at = "running" /\ c.request = call[h].request /\ c.job = call[h].job
  BY <1>1, <1>2, GoesTurns, Kept DEF Stages, Calls
<1> HIDE DEF c
<1>4. call'[h] = c
  BY <1>3, Turned, Kept
<1>5. InHand(h)'
  BY <1>2, <1>3, <1>4 DEF InHand
<1>6. JobMove(h)
  BY <1>1, <1>3, <1>4, MovesItsJob DEF Working, Active
<1>7. QED
  BY <1>1, <1>3, <1>5, <1>6, WorkInv, Kept DEF Working, WorkKept

LEMMA RejectWorkInv ==
  ASSUME Inv, NEW h \in Handlers, Reject(h, call[h].job), WorkKept, call[h].at \in Working,
         objects \subseteq objects', objects' \subseteq Bundles \cup {Replay}, board' = board
  PROVE  Inv'
BY WorkDoneInv DEF Reject, Terminal

LEMMA NoSeedsInv ==
  ASSUME Inv, NEW h \in Handlers, NoSeeds(h)
  PROVE  Inv'
BY RejectWorkInv, Kept DEF NoSeeds, Working, WorkKept

LEMMA ScoreInv ==
  ASSUME Inv, NEW h \in Handlers, Score(h)
  PROVE  Inv'
<1>1. call[h].at = "running" /\ UNCHANGED <<queue, count, board, objects, shared, abandoned>>
  BY DEF Score
<1>2. PICK outcome \in Runs[Artifact(h)] :
        IF outcome = Crash
        THEN Reject(h, call[h].job)
        ELSE /\ _transition(call[h].job, "scored", Absent)
             /\ call' = [call EXCEPT ![h].at = "scored", ![h].score = outcome]
  BY DEF Score
<1>3. CASE outcome = Crash
  BY <1>1, <1>2, <1>3, RejectWorkInv, Kept DEF Working, WorkKept
<1>4. CASE outcome # Crash
  <2>1. call[h] \in Calls /\ call[h].request \in Requests /\ call[h].job \in Tickets /\ outcome \in Scores
    BY <1>1, <1>4, AtWork DEF Working
  <2>2. PICK c : /\ c = [call[h] EXCEPT !.at = "scored", !.score = outcome]
                 /\ call' = [call EXCEPT ![h] = c]
    BY <1>2, <1>4
  <2>3. /\ c \in Calls /\ c.at = "scored" /\ c.score = outcome
        /\ c.request = call[h].request /\ c.job = call[h].job
    BY <2>1, <2>2 DEF Calls, Stages
  <2>4. Turns(h, c) /\ call'[h] = c
    BY <2>2, <2>3, Turned, Kept DEF Turns
  <2>5. InHand(h)'
    <3>1. Artifact(h)' = Artifact(h)
      BY <2>3, <2>4 DEF Artifact
    <3>2. QED
      BY <1>4, <2>1, <2>3, <2>4, <3>1 DEF InHand
  <2>6. JobMove(h)
    BY <1>1, <1>2, <1>4, <2>3, <2>4, MovesItsJob DEF Working, Active
  <2>7. QED
    BY <1>1, <2>3, <2>4, <2>5, <2>6, WorkInv, Kept DEF Working, WorkKept
<1>5. QED
  BY <1>3, <1>4

LEMMA AuditInv ==
  ASSUME Inv, NEW h \in Handlers, Audit(h)
  PROVE  Inv'
<1>1. call[h].at = "scored" /\ UNCHANGED <<queue, count, board, shared, abandoned>>
  BY DEF Audit
<1>2. PICK outcome \in Runs[Artifact(h)] :
        IF outcome = Crash
        THEN Reject(h, call[h].job)
        ELSE /\ call' = [call EXCEPT ![h].at = "audited",
                  ![h].integrity = IF outcome = call[h].score THEN "verified" ELSE "flagged"]
             /\ UNCHANGED jobs
  BY DEF Audit
<1>3. /\ call[h] \in Calls /\ call[h].request \in Requests /\ call[h].job \in Tickets
      /\ call[h].score \in Runs[Artifact(h)] \ {Crash} /\ call[h].score \in Scores
      /\ Artifact(h) \in Artifacts
  BY <1>1, AtWork DEF Working, InHand
<1>4. PICK bundle \in Bundles : bundle = Bundle(Artifact(h), call[h].score)
  BY <1>3, BundleFacts
<1>5. objects' = objects \cup {bundle}
  BY <1>4 DEF Audit
<1>6. objects \subseteq objects' /\ objects' \subseteq Bundles \cup {Replay} /\ bundle \in objects'
  BY <1>5, Kept
<1>7. CASE outcome = Crash
  BY <1>1, <1>2, <1>6, <1>7, RejectWorkInv, Kept DEF Working, WorkKept
<1>8. CASE outcome # Crash
  <2>1. PICK verdict \in {"verified", "flagged"} :
          call' = [call EXCEPT ![h] = [call[h] EXCEPT !.at = "audited", !.integrity = verdict]]
    BY <1>2, <1>8
  <2> PICK c :
          /\ c = [call[h] EXCEPT !.at = "audited", !.integrity = verdict]
          /\ call' = [call EXCEPT ![h] = c]
    BY <2>1
  <2>2. /\ c \in Calls /\ c.at = "audited" /\ c.score = call[h].score /\ c.integrity = verdict
        /\ c.request = call[h].request /\ c.job = call[h].job
    BY <1>3 DEF Calls, Stages
  <2>3. Turns(h, c) /\ call'[h] = c
    BY <2>2, Turned, Kept DEF Turns
  <2>4. InHand(h)'
    <3>1. Artifact(h)' = Artifact(h) /\ Bundle(Artifact(h), call[h].score)' = bundle
      BY <1>4, <2>2, <2>3 DEF Artifact, Bundle
    <3>2. QED
      BY <1>3, <1>6, <2>2, <2>3, <3>1 DEF InHand
  <2>5. JobMove(h)
    BY <1>2, <1>8 DEF JobMove
  <2>6. QED
    BY <1>1, <1>6, <2>2, <2>3, <2>4, <2>5, WorkInv, Kept DEF Working, WorkKept
<1>9. QED
  BY <1>7, <1>8

LEMMA ListInv ==
  ASSUME Inv, NEW h \in Handlers, List(h)
  PROVE  Inv'
<1>1. call[h].at = "audited" /\ Goes(h, "listed") /\ UNCHANGED <<jobs, queue, count, objects, shared, abandoned>>
  BY DEF List
<1>2. /\ call[h] \in Calls /\ call[h].request \in Requests /\ call[h].job \in Tickets
      /\ call[h].score \in Runs[Artifact(h)] \ {Crash} /\ call[h].score \in Scores
      /\ Artifact(h) \in Artifacts /\ call[h].integrity \in {"verified", "flagged"}
      /\ Bundle(Artifact(h), call[h].score) \in objects
  BY <1>1, AtWork DEF Working, InHand
<1>3. PICK bundle \in Bundles : bundle = Bundle(Artifact(h), call[h].score)
  BY <1>2, BundleFacts
<1>4. PICK id \in Ids : id = HubId(h) /\ id[1] = Artifact(h) /\ id[2] = call[h].score
  BY <1>2, BundleFacts DEF HubId
<1>5. PICK e : /\ e = [id |-> id, integrity |-> call[h].integrity, trace |-> Absent, provenance |-> bundle]
               /\ board' = Added(board, e)
  BY <1>3, <1>4 DEF List
<1>6. e \in Entries /\ e.id = id /\ e.provenance = bundle /\ e.trace = Absent
  BY <1>2, <1>5 DEF Entries
<1>7. Lineage(e)'
  <2>1. bundle \in objects' /\ bundle = [source |-> id[1], scorecard |-> id[2]]
    BY <1>1, <1>2, <1>3, <1>4 DEF Bundle
  <2>2. QED
    BY <1>6, <2>1 DEF Lineage, Bundle
<1>8. board' \subseteq Entries /\ \A x \in board' : x \in board \/ Lineage(x)'
  BY <1>5, <1>6, <1>7, EntryAdded
<1>9. PICK c : c = [call[h] EXCEPT !.at = "listed"] /\ Turns(h, c)
  BY <1>1, GoesTurns, Kept DEF Stages
<1>10. /\ c.at = "listed" /\ c.score = call[h].score /\ c.integrity = call[h].integrity
       /\ c.request = call[h].request /\ c.job = call[h].job /\ call'[h] = c
  BY <1>2, <1>9, Turned, Kept DEF Calls
<1>11. InHand(h)'
  <2>1. Artifact(h)' = Artifact(h) /\ Bundle(Artifact(h), call[h].score)' = bundle
    BY <1>3, <1>10 DEF Artifact, Bundle
  <2>2. bundle \in objects'
    BY <1>1, <1>2, <1>3
  <2>3. QED
    BY <1>2, <1>10, <2>1, <2>2 DEF InHand
<1>12. JobMove(h)
  BY <1>1 DEF JobMove
<1>13. QED
  BY <1>1, <1>8, <1>9, <1>10, <1>11, <1>12, WorkInv, Kept DEF Working, WorkKept

LEMMA SettleInv ==
  ASSUME Inv, NEW h \in Handlers, Settle(h)
  PROVE  Inv'
<1>1. call[h].at = "listed" /\ Done(h) /\ UNCHANGED <<queue, count, board, objects, shared, abandoned>>
  BY DEF Settle
<1>2. /\ call[h].score \in Scores /\ Artifact(h) \in Artifacts
      /\ ~shared => call[h].job = call[h].request
  BY <1>1, AtWork DEF Working, InHand
<1>3. PICK id \in Ids : id = HubId(h) /\ id[1] = Artifact(h)
  BY <1>2, BundleFacts DEF HubId
<1>4. PICK status \in Terminal : _transition(call[h].job, status, id)
  BY <1>3 DEF Settle, Terminal
<1>5. ~shared => id[1] = call[h].job[2]
  BY <1>2, <1>3 DEF Artifact
<1>6. QED
  BY <1>1, <1>4, <1>5, WorkDoneInv, Kept DEF Working, WorkKept

-----------------------------------------------------------------------------
(* In the queue. *)

LEMMA PublishInv ==
  ASSUME Inv, NEW h \in Handlers, Publish(h)
  PROVE  Inv'
<1>1. call[h].at = "counted" /\ Goes(h, "published") /\ UNCHANGED <<jobs, count, board, objects, abandoned>>
  BY DEF Publish
<1>2. PICK t \in Tickets : t = ticket(call[h].request) /\ queue' = Append(queue, t)
  BY <1>1, RequestFacts DEF Publish, ticket, Inv, AllInHand, InHand, Admitted
<1>3. call[h] \in Calls /\ call[h].request \in Requests
  BY <1>1, CallFacts, Kept DEF Inv, AllInHand, InHand, Admitted
<1>4. PICK c : c = [call[h] EXCEPT !.at = "published"] /\ Turns(h, c)
  BY <1>1, GoesTurns, Kept DEF Stages
<1>5. /\ c.at = "published" /\ c.request = call[h].request /\ call'[h] = c
      /\ call' \in [Handlers -> Calls] /\ \A g \in Handlers : g # h => call'[g] = call[g]
  BY <1>3, <1>4, Turned, Kept DEF Calls
<1>6. Waiting' = Waiting \cup {h} /\ h \notin Waiting
  BY <1>1, <1>5 DEF Waiting, InQueue
<1>7. shared' \in BOOLEAN /\ (shared => shared') /\ (~shared' => queue = <<>> /\ Waiting = {})
  <2>1. shared' = (shared \/ queue # <<>>)
    BY DEF Publish
  <2>2. shared' \in BOOLEAN /\ (shared => shared') /\ (~shared' => ~shared /\ queue = <<>>)
    BY <2>1, Zenon
  <2>3. ~shared /\ queue = <<>> => Waiting = {}
    BY DEF Inv, Single
  <2>4. QED
    BY <2>2, <2>3
<1>8. queue \in Seq(Tickets) /\ queue' \in Seq(Tickets) /\ Len(queue') = Len(queue) + 1
  BY <1>2 DEF Inv, TypeOK
<1>9. NeverLost'
  <2>1. Cardinality(Waiting \cup {h}) = Cardinality(Waiting) + 1
    BY <1>6, WaitingFinite, FS_AddElement
  <2>2. Cardinality(Waiting) <= Len(queue)
    BY DEF Inv, NeverLost, Waiting
  <2>3. Cardinality(Waiting)' <= Len(queue)'
    BY <1>6, <1>8, <2>1, <2>2, WaitingFinite
  <2>4. QED
    BY <2>3 DEF NeverLost, Waiting
<1>10. Single'
  <2> SUFFICES ASSUME ~shared'
               PROVE  /\ \A g \in Waiting' : Waiting' = {g} /\ queue' = <<ticket(call'[g].request)>>
                      /\ \A g \in Handlers : call'[g].at \in Working => call'[g].job = call'[g].request
    BY DEF Single, ticket
  <2>1. Waiting' = {h} /\ queue = <<>> /\ ~shared
    BY <1>6, <1>7 DEF Inv, Single
  <2>2. queue' = <<t>> /\ t = ticket(call'[h].request)
    BY <1>2, <1>5, <2>1 DEF ticket
  <2>3. \A g \in Handlers : call'[g].at \in Working => call'[g].job = call'[g].request
    BY <1>5, <2>1 DEF Inv, Single, Working
  <2>4. QED
    BY <2>1, <2>2, <2>3
<1>11. InHand(h)'
  BY <1>3, <1>5 DEF InHand, Working
<1>12. AllInHand' /\ LineageStored'
  BY <1>1, <1>4, <1>11, OthersKeep, BoardKept
<1>13. OwnResult' /\ Attended' /\ jobs' \in [Tickets -> JobRecords]
  <2>1. JobMove(h)
    BY <1>1 DEF JobMove
  <2>2. Leaves(h)
    BY <1>1 DEF Leaves, Works, InQueue
  <2>3. QED
    BY <1>1, <1>4, <1>7, <2>1, <2>2, JobsKept, NoneLeft
<1>14. TypeOK'
  BY <1>1, <1>5, <1>7, <1>8, <1>13, Kept DEF TypeOK
<1>15. QED
  BY <1>9, <1>10, <1>12, <1>13, <1>14 DEF Inv

LEMMA MarkQueuedInv ==
  ASSUME Inv, NEW h \in Handlers, MarkQueued(h)
  PROVE  Inv'
<1>1. call[h].at = "published" /\ Goes(h, "waiting") /\ UNCHANGED <<queue, count, board, objects, shared>>
  BY DEF MarkQueued
<1>2. call[h] \in Calls /\ call[h].request \in Requests
  BY <1>1, CallFacts, Kept DEF Inv, AllInHand, InHand, Admitted, Accepted, InQueue
<1>3. PICK t \in Tickets : t = ticket(call[h].request) /\ _transition(t, "queued", Absent)
                           /\ abandoned' = abandoned \ {t}
  BY <1>2, RequestFacts DEF MarkQueued, ticket
<1>4. PICK c : c = [call[h] EXCEPT !.at = "waiting"] /\ Turns(h, c)
  BY <1>1, GoesTurns, Kept DEF Stages
<1>5. /\ c.at = "waiting" /\ c.request = call[h].request /\ call'[h] = c
      /\ call' \in [Handlers -> Calls] /\ \A g \in Handlers : g # h => call'[g] = call[g]
  BY <1>2, <1>4, Turned, Kept DEF Calls
<1>6. NeverLost' /\ Single'
  <2>1. Waiting' = Waiting
    BY <1>1, <1>5 DEF Waiting, InQueue
  <2>2. \A g \in Handlers :
          /\ g \in Waiting => call'[g].request = call[g].request
          /\ ~shared /\ call'[g].at \in Working => call'[g].job = call'[g].request
    BY <1>5 DEF Inv, Single, Working
  <2>3. QED
    BY <1>1, <2>1, <2>2, QueueKept
<1>7. InHand(h)'
  BY <1>2, <1>5 DEF InHand, Working
<1>8. AllInHand' /\ LineageStored'
  BY <1>1, <1>4, <1>7, OthersKeep, BoardKept
<1>9. \A j \in Tickets : Works(h, j)' <=> j = t
  BY <1>3, <1>5 DEF Works, InQueue, ticket
<1>10. OwnResult' /\ Attended' /\ jobs' \in [Tickets -> JobRecords]
  <2>1. JobMove(h)
    BY <1>3, <1>9 DEF JobMove, Active
  <2>2. Leaves(h)
    BY <1>1, <1>3, <1>9 DEF Leaves, Works, InQueue
  <2>3. AbandonedKept(h)
    BY <1>3, <1>9 DEF AbandonedKept, Inv, TypeOK
  <2>4. QED
    BY <1>1, <1>4, <2>1, <2>2, <2>3, JobsKept
<1>11. TypeOK'
  BY <1>1, <1>3, <1>5, <1>10, Kept DEF TypeOK
<1>12. QED
  BY <1>6, <1>8, <1>10, <1>11 DEF Inv

(* The queue of a handler that waits is not empty, and when no two          *)
(* envelopes met there its head is the handler's own.                       *)
LEMMA TakeInv ==
  ASSUME Inv, NEW h \in Handlers, Take(h)
  PROVE  Inv'
<1>1. call[h].at = "waiting" /\ UNCHANGED <<jobs, count, board, objects, shared, abandoned>>
  BY DEF Take
<1>2. h \in Waiting
  BY <1>1 DEF Waiting, InQueue
<1>3. queue \in Seq(Tickets) /\ Cardinality(Waiting) <= Len(queue)
  BY DEF Inv, TypeOK, NeverLost, Waiting
<1>4. queue # <<>> /\ Len(queue) > 0
  <2>1. Cardinality(Waiting) > 0 /\ Cardinality(Waiting) \in Nat
    BY <1>2, WaitingFinite
  <2>2. QED
    BY <1>3, <2>1
<1>5. PICK c : c = [call[h] EXCEPT !.at = "taken", !.job = Head(queue)] /\ call' = [call EXCEPT ![h] = c]
  BY <1>4 DEF Take
<1>6. /\ queue' = Tail(queue) /\ queue' \in Seq(Tickets) /\ Len(queue') = Len(queue) - 1
      /\ Head(queue) \in Tickets
  <2>1. queue' = Tail(queue)
    BY <1>4 DEF Take
  <2>2. QED
    BY <1>3, <1>4, <2>1
<1>7. call[h] \in Calls /\ call[h].request \in Requests
  BY <1>1, CallFacts, Kept DEF Inv, AllInHand, InHand, Admitted, Accepted, InQueue
<1>8. c \in Calls /\ c.at = "taken" /\ c.job = Head(queue) /\ c.request = call[h].request
  BY <1>5, <1>6, <1>7 DEF Calls, Stages
<1>9. /\ Turns(h, c) /\ call'[h] = c
      /\ call' \in [Handlers -> Calls] /\ \A g \in Handlers : g # h => call'[g] = call[g]
  BY <1>5, <1>8, Turned, Kept DEF Turns
<1>10. Waiting' = Waiting \ {h}
  BY <1>8, <1>9 DEF Waiting, InQueue
<1>11. ~shared => Waiting = {h} /\ queue = <<call[h].request>>
  BY <1>2 DEF Inv, Single, ticket
<1>12. NeverLost'
  <2>1. Cardinality(Waiting \ {h}) = Cardinality(Waiting) - 1
    BY <1>2, WaitingFinite, FS_RemoveElement
  <2>2. Cardinality(Waiting)' <= Len(queue)'
    BY <1>3, <1>6, <1>10, <2>1, WaitingFinite
  <2>3. QED
    BY <2>2 DEF NeverLost, Waiting
<1>13. Single'
  <2> SUFFICES ASSUME ~shared'
               PROVE  /\ Waiting' = {} /\ queue' = <<>>
                      /\ \A g \in Handlers : call'[g].at \in Working => call'[g].job = call'[g].request
    BY DEF Single
  <2>1. ~shared
    BY <1>1
  <2>2. Waiting' = {} /\ Len(queue') = 0
    BY <1>6, <1>10, <1>11, <2>1
  <2>3. c.job = c.request
    BY <1>8, <1>11, <2>1
  <2>4. \A g \in Handlers : call'[g].at \in Working => call'[g].job = call'[g].request
    BY <1>9, <2>1, <2>3 DEF Inv, Single
  <2>5. QED
    BY <1>6, <2>2, <2>4
<1>14. InHand(h)'
  BY <1>6, <1>7, <1>8, <1>9 DEF InHand
<1>15. AllInHand' /\ LineageStored'
  BY <1>1, <1>9, <1>14, OthersKeep, BoardKept
<1>16. OwnResult' /\ Attended' /\ jobs' \in [Tickets -> JobRecords]
  <2>1. JobMove(h)
    BY <1>1 DEF JobMove
  <2>2. ~shared' => Leaves(h)
    <3> SUFFICES ASSUME ~shared, NEW j \in Tickets, Works(h, j) PROVE Works(h, j)'
      BY <1>1 DEF Leaves
    <3>1. j = call[h].request
      BY <1>1 DEF Works, InQueue, ticket
    <3>2. call'[h].job = j /\ call'[h].at = "taken"
      BY <1>8, <1>9, <1>11, <3>1
    <3>3. QED
      BY <3>2 DEF Works
  <2>3. QED
    BY <1>1, <1>9, <2>1, <2>2, JobsKept, NoneLeft
<1>17. TypeOK'
  BY <1>1, <1>6, <1>9, <1>16, Kept DEF TypeOK, Inv
<1>18. QED
  BY <1>12, <1>13, <1>15, <1>16, <1>17 DEF Inv

-----------------------------------------------------------------------------
(* An exception nobody catches takes a handler away at any of its stages:  *)
(* its job is abandoned, and its envelope may be left.                     *)

LEMMA EscapesInv ==
  ASSUME Inv, NEW h \in Handlers, Escapes(h), UNCHANGED <<jobs, queue, count, board, shared>>,
         objects \subseteq objects', objects' \subseteq Bundles \cup {Replay}
  PROVE  Inv'
<1> DEFINE c == [NewCall EXCEPT !.at = "done"]
<1>1. Done(h) /\ abandoned' = abandoned \cup {j \in Tickets : Works(h, j)}
  BY DEF Escapes
<1>2. Turns(h, c) /\ InHand(h)' /\ c.at = "done"
  BY <1>1, DoneTurns, DoneHasNothing, Kept DEF NewCall
<1> HIDE DEF c
<1>3. /\ call'[h] = c /\ call' \in [Handlers -> Calls]
      /\ \A g \in Handlers : g # h => call'[g] = call[g]
  BY <1>2, Turned, Kept
<1>4. AllInHand' /\ LineageStored'
  BY <1>2, OthersKeep, BoardKept
<1>5. Waiting' = Waiting \ {h}
  BY <1>2, <1>3 DEF Waiting, InQueue
<1>6. NeverLost'
  <2>1. Cardinality(Waiting \ {h}) <= Cardinality(Waiting) /\ Cardinality(Waiting \ {h}) \in Nat
    BY WaitingFinite, FS_Subset, FS_CardinalityType
  <2>2. Cardinality(Waiting) <= Len(queue) /\ Len(queue) \in Nat
    BY DEF Inv, TypeOK, NeverLost, Waiting
  <2>3. Cardinality(Waiting)' <= Len(queue)'
    BY <1>5, <2>1, <2>2, WaitingFinite
  <2>4. QED
    BY <2>3 DEF NeverLost, Waiting
<1>7. Single'
  <2> SUFFICES ASSUME ~shared'
               PROVE  /\ \A g \in Waiting' : Waiting' = {g} /\ queue' = <<ticket(call'[g].request)>>
                      /\ \A g \in Handlers : call'[g].at \in Working => call'[g].job = call'[g].request
    BY DEF Single, ticket
  <2>1. \A g \in Waiting' : Waiting' = {g} /\ queue' = <<ticket(call'[g].request)>>
    BY <1>3, <1>5 DEF Inv, Single, Waiting
  <2>2. \A g \in Handlers : call'[g].at \in Working => call'[g].job = call'[g].request
    BY <1>2, <1>3 DEF Inv, Single, Working
  <2>3. QED
    BY <2>1, <2>2
<1>8. OwnResult' /\ Attended' /\ jobs' \in [Tickets -> JobRecords]
  <2>1. JobMove(h)
    BY DEF JobMove
  <2>2. Leaves(h)
    BY <1>1 DEF Leaves
  <2>3. AbandonedKept(h)
    BY <1>1 DEF AbandonedKept, Inv, TypeOK
  <2>4. QED
    BY <1>2, <2>1, <2>2, <2>3, JobsKept
<1>9. TypeOK'
  BY <1>1, <1>3, <1>8, Kept DEF TypeOK, Inv
<1>10. QED
  BY <1>4, <1>6, <1>7, <1>8, <1>9 DEF Inv

LEMMA FailInv ==
  ASSUME Inv, NEW h \in Handlers, Fail(h)
  PROVE  Inv'
<1>1. CASE Raise(h)
  BY <1>1, EscapesInv, Kept DEF Raise
<1>2. CASE AuditEscapes(h)
  <2>1. /\ call[h].at = "scored" /\ Escapes(h) /\ UNCHANGED <<jobs, queue, count, board, shared>>
        /\ objects' = objects \cup {Bundle(Artifact(h), call[h].score)}
    BY <1>2 DEF AuditEscapes
  <2>2. Artifact(h) \in Artifacts /\ call[h].score \in Scores
    BY <2>1, AtWork DEF Working, InHand
  <2>3. Bundle(Artifact(h), call[h].score) \in Bundles
    BY <2>2, BundleFacts
  <2>4. QED
    BY <2>1, <2>3, EscapesInv, Kept
<1>3. CASE AttachEscapes(h)
  BY <1>3, EscapesInv, Kept DEF AttachEscapes
<1>4. QED
  BY <1>1, <1>2, <1>3 DEF Fail

-----------------------------------------------------------------------------
(* The theorems. *)

LEMMA StutterInv == Inv /\ UNCHANGED vars => Inv'
BY DEF vars, Inv, TypeOK, AllInHand, InHand, Lineage, Artifact, Bundle, LineageStored, NeverLost,
       Single, Waiting, ticket, OwnResult, Attended, Works

LEMMA NextInv == Inv /\ [Next]_vars => Inv'
<1> SUFFICES ASSUME Inv, Next PROVE Inv'
  BY StutterInv
<1>1. CASE \E s \in Subjects : ResetWindow(s)
  BY <1>1, ResetWindowInv
<1>2. ASSUME NEW h \in Handlers, Call(h) PROVE Inv'
  BY <1>2, AuthorizeInv, ReadEntryInv DEF Call
<1>3. ASSUME NEW h \in Handlers, Continue(h) PROVE Inv'
  <2>1. CASE RateLimit(h) \/ IntakeRejects(h) \/ Publish(h) \/ MarkQueued(h) \/ Take(h)
    BY <2>1, RateLimitInv, IntakeRejectsInv, PublishInv, MarkQueuedInv, TakeInv
  <2>2. CASE MarkRunning(h) \/ NoSeeds(h) \/ Score(h) \/ Audit(h) \/ List(h) \/ Settle(h)
    BY <2>2, MarkRunningInv, NoSeedsInv, ScoreInv, AuditInv, ListInv, SettleInv
  <2>3. CASE SubmitLocal(h) \/ AttachReplay(h) \/ Retract(h)
    BY <2>3, SubmitLocalInv, AttachReplayInv, RetractInv
  <2>4. QED
    BY <1>3, <2>1, <2>2, <2>3 DEF Continue
<1>4. QED
  BY <1>1, <1>2, <1>3, FailInv DEF Next

(* The invariant of the service, whatever the handlers, the requests and   *)
(* the outcomes of the sandbox (_service.py, submit_hub to retract).       *)
THEOREM Invariance == Spec => []Inv
BY InitInv, NextInv, PTL DEF Spec

(* The service's records keep their types: no submission is catalogued     *)
(* under an id its policy, score and source do not give, and no window     *)
(* counts past its limit (_service.py:333-420, _ratelimit.py).             *)
THEOREM TypeCorrect == Spec => []TypeOK
<1>1. Inv => TypeOK
  BY DEF Inv
<1>2. QED
  BY <1>1, Invariance, PTL

(* The RuntimeError of _evaluate_queued ("the submission queue lost an     *)
(* accepted submission") is unreachable: the queue is at least as long as  *)
(* the handlers that published and have yet to take are many, also when    *)
(* handlers fail and leave their envelopes behind.                         *)
THEOREM QueueLosesNothing == Spec => []NeverLost
<1>1. Inv => NeverLost
  BY DEF Inv
<1>2. QED
  BY <1>1, Invariance, PTL

(* Every entry of the board names a bundle of its own run, and that bundle *)
(* and its replay are in the object store, through resubmission, replays   *)
(* attached late and retraction.                                           *)
THEOREM LineageIsStored == Spec => []LineageStored
<1>1. Inv => LineageStored
  BY DEF Inv
<1>2. QED
  BY <1>1, Invariance, PTL

(* While no two envelopes met in the queue, a job's result_id is that of a *)
(* run of the artifact the job was opened for.                             *)
THEOREM ResultsAreOwn == Spec => []OwnResult
<1>1. Inv => OwnResult
  BY DEF Inv
<1>2. QED
  BY <1>1, Invariance, PTL

(* ... and every job shown as queued, running or scored has a handler at   *)
(* work on it, or an exception that is no SandboxError was raised under    *)
(* the last one it had: no rejection, crash or missing seed leaves one     *)
(* behind (_service.py:536-644).                                           *)
THEOREM JobsAreAttended == Spec => []Attended
<1>1. Inv => Attended
  BY DEF Inv
<1>2. QED
  BY <1>1, Invariance, PTL

-----------------------------------------------------------------------------
(* Handlers one by one. *)

Rank == [new |-> 0, authorized |-> 1, replaying |-> 1, retracting |-> 1, counted |-> 2,
         published |-> 3, waiting |-> 4, taken |-> 5, running |-> 6, scored |-> 7,
         audited |-> 8, listed |-> 9, done |-> 10]

Onward(h) == call'[h] = call[h] \/ Rank[call[h].at] < Rank[call'[h].at]

(* No call returns to a stage it has left, so each ends within ten steps   *)
(* of its own however the others interleave with it.                       *)
CallsOnlyAdvance == [][\A h \in Handlers : Onward(h)]_vars

(* Who moves a job: a handler whose own request the job is for. *)
MovedByItsOwn(j) ==
  jobs'[j] # jobs[j] => \E h \in Handlers : call[h].request = j /\ call'[h] # call[h]

(* While no two envelopes have met in the queue nobody's submission moves  *)
(* the job of another's, settled or under way.                             *)
JobsAreMovedByTheirOwn == [][~shared' => \A j \in Tickets : MovedByItsOwn(j)]_vars

(* A step of a handler: its call goes on, and touches one job at most. *)
Advances(h) ==
  \E c : call' = [call EXCEPT ![h] = c] /\ Rank[call[h].at] < Rank[c.at]
Touches(h, j) == \E r : jobs' = [jobs EXCEPT ![j] = r]

LEMMA TurnAdvances ==
  ASSUME NEW h \in Handlers, NEW c, call' = [call EXCEPT ![h] = c],
         <<call[h].at, c.at>> \in
           {<<"new", "authorized">>, <<"new", "replaying">>, <<"new", "retracting">>,
            <<"waiting", "taken">>, <<"running", "scored">>, <<"scored", "audited">>}
  PROVE  Advances(h)
<1>1. Rank[call[h].at] < Rank[c.at]
  BY DEF Rank
<1>2. QED
  BY <1>1, Zenon DEF Advances

LEMMA TransitionTouches ==
  ASSUME NEW h \in Handlers, NEW j, NEW status, NEW result, _transition(j, status, result)
  PROVE  Touches(h, j)
BY DEF _transition, Touches

LEMMA DoneAdvances ==
  ASSUME NEW h \in Handlers, call[h].at \in Stages \ {"done"}, Done(h)
  PROVE  Advances(h)
<1>1. Rank[call[h].at] < Rank[[NewCall EXCEPT !.at = "done"].at]
  BY DEF Rank, NewCall, Stages
<1>2. QED
  BY <1>1 DEF Done, Advances

LEMMA GoesAdvances ==
  ASSUME TypeOK, NEW h \in Handlers, NEW stage \in Stages, Goes(h, stage),
         Rank[call[h].at] < Rank[stage]
  PROVE  Advances(h)
<1>1. call' = [call EXCEPT ![h] = [call[h] EXCEPT !.at = stage]]
  BY DEF Goes
<1>2. [call[h] EXCEPT !.at = stage].at = stage
  BY CallFacts DEF Calls
<1>3. QED
  BY <1>1, <1>2 DEF Advances

LEMMA RejectTouches ==
  ASSUME NEW h \in Handlers, call[h].at \in Stages \ {"done"}, NEW j, Reject(h, j)
  PROVE  Advances(h) /\ Touches(h, j)
BY DoneAdvances DEF Reject, _transition, Touches

(* Before the queue a handler has nothing but its own request. *)
LEMMA IntakeSteps ==
  ASSUME TypeOK, NEW h \in Handlers,
         \/ Call(h) \/ RateLimit(h) \/ IntakeRejects(h) \/ Publish(h) \/ MarkQueued(h)
         \/ Take(h) \/ SubmitLocal(h) \/ AttachReplay(h) \/ Retract(h)
  PROVE  Advances(h) /\ (jobs' = jobs \/ Touches(h, call[h].request))
<1>1. CASE Authorize(h)
  <2>1. call[h].at = "new" /\ jobs' = jobs
    BY <1>1 DEF Authorize
  <2>2. CASE Done(h)
    BY <2>1, <2>2, DoneAdvances DEF Stages
  <2>3. CASE ~Done(h)
    <3>1. PICK r, intake : call' = [call EXCEPT ![h] = [NewCall EXCEPT
            !.at = "authorized", !.request = r, !.intake = intake]]
      BY <1>1, <2>3 DEF Authorize
    <3> DEFINE c == [NewCall EXCEPT !.at = "authorized", !.request = r, !.intake = intake]
    <3>2. call' = [call EXCEPT ![h] = c] /\ c.at = "authorized"
      BY <3>1 DEF NewCall
    <3> HIDE DEF c
    <3>3. QED
      BY <2>1, <3>2, TurnAdvances
  <2>4. QED
    BY <2>2, <2>3
<1>2. ASSUME NEW purpose \in {"replaying", "retracting"}, ReadEntry(h, purpose)
      PROVE  Advances(h) /\ jobs' = jobs
  <2>1. /\ call[h].at = "new" /\ jobs' = jobs
        /\ \E e \in board : call' = [call EXCEPT ![h] =
             [NewCall EXCEPT !.at = purpose, !.entry = e]]
    BY <1>2 DEF ReadEntry
  <2>2. \A e : [NewCall EXCEPT !.at = purpose, !.entry = e].at = purpose
    BY DEF NewCall
  <2>3. PICK c : call' = [call EXCEPT ![h] = c] /\ c.at = purpose
    BY <2>1, <2>2
  <2>4. QED
    BY <2>1, <2>3, TurnAdvances
<1>3. CASE RateLimit(h)
  <2>1. call[h].at = "authorized"
    BY <1>3 DEF RateLimit
  <2>2. CASE count[Subject(h)] < Limit
    BY <1>3, <2>1, <2>2, GoesAdvances DEF RateLimit, Rank, Stages
  <2>3. CASE ~(count[Subject(h)] < Limit)
    BY <1>3, <2>1, <2>3, DoneAdvances, RejectTouches DEF RateLimit, Stages, ticket
  <2>4. QED
    BY <2>2, <2>3
<1>4. CASE IntakeRejects(h)
  BY <1>4, RejectTouches DEF IntakeRejects, Stages, ticket
<1>5. CASE Publish(h)
  BY <1>5, GoesAdvances DEF Publish, Rank, Stages
<1>6. CASE MarkQueued(h)
  <2>1. /\ call[h].at = "published" /\ Goes(h, "waiting")
        /\ _transition(call[h].request, "queued", Absent)
    BY <1>6 DEF MarkQueued, ticket
  <2>2. Advances(h)
    BY <2>1, GoesAdvances DEF Rank, Stages
  <2>3. QED
    BY <2>1, <2>2, TransitionTouches
<1>7. CASE Take(h)
  <2>1. call[h].at = "waiting" /\ jobs' = jobs
    BY <1>7 DEF Take
  <2>2. CASE Done(h)
    BY <2>1, <2>2, DoneAdvances DEF Stages
  <2>3. CASE ~Done(h)
    <3>1. PICK c : /\ c = [call[h] EXCEPT !.at = "taken", !.job = Head(queue)]
                   /\ call' = [call EXCEPT ![h] = c]
      BY <1>7, <2>3 DEF Take
    <3>2. c.at = "taken"
      BY <3>1, CallFacts DEF Calls
    <3>3. QED
      BY <2>1, <3>1, <3>2, TurnAdvances
  <2>4. QED
    BY <2>2, <2>3
<1>8. CASE SubmitLocal(h)
  BY <1>8, DoneAdvances DEF SubmitLocal, Stages
<1>9. CASE AttachReplay(h)
  BY <1>9, DoneAdvances DEF AttachReplay, Stages
<1>10. CASE Retract(h)
  BY <1>10, DoneAdvances DEF Retract, Stages
<1>11. QED
  BY <1>1, <1>2, <1>3, <1>4, <1>5, <1>6, <1>7, <1>8, <1>9, <1>10 DEF Call

(* After it a handler has the job of the envelope it took. *)
LEMMA WorkSteps ==
  ASSUME TypeOK, NEW h \in Handlers,
         MarkRunning(h) \/ NoSeeds(h) \/ Score(h) \/ Audit(h) \/ List(h) \/ Settle(h)
  PROVE  /\ Advances(h) /\ call[h].at \in Working /\ shared' = shared
         /\ jobs' = jobs \/ Touches(h, call[h].job)
<1>1. CASE MarkRunning(h)
  <2>1. /\ call[h].at = "taken" /\ Goes(h, "running") /\ shared' = shared
        /\ _transition(call[h].job, "running", Absent)
    BY <1>1 DEF MarkRunning
  <2>2. Advances(h)
    BY <2>1, GoesAdvances DEF Rank, Stages
  <2>3. QED
    BY <2>1, <2>2, TransitionTouches DEF Working
<1>2. CASE NoSeeds(h)
  BY <1>2, RejectTouches DEF NoSeeds, Stages, Working
<1>3. CASE Score(h)
  <2>1. /\ call[h].at = "running" /\ shared' = shared
        /\ \E outcome \in Runs[Artifact(h)] :
             \/ Reject(h, call[h].job)
             \/ /\ _transition(call[h].job, "scored", Absent)
                /\ call' = [call EXCEPT ![h] =
                     [call[h] EXCEPT !.at = "scored", !.score = outcome]]
    BY <1>3 DEF Score
  <2>2. \A x : [call[h] EXCEPT !.at = "scored", !.score = x].at = "scored"
    BY CallFacts DEF Calls
  <2>3. CASE Reject(h, call[h].job)
    BY <2>1, <2>3, RejectTouches DEF Stages, Working
  <2>4. CASE ~Reject(h, call[h].job)
    <3>1. /\ _transition(call[h].job, "scored", Absent)
          /\ \E outcome : call' = [call EXCEPT ![h] =
               [call[h] EXCEPT !.at = "scored", !.score = outcome]]
      BY <2>1, <2>4
    <3>2. PICK c : call' = [call EXCEPT ![h] = c] /\ c.at = "scored"
      BY <2>2, <3>1
    <3>3. Advances(h)
      BY <2>1, <3>2, TurnAdvances
    <3>4. QED
      BY <2>1, <3>1, <3>3, TransitionTouches DEF Working
  <2>5. QED
    BY <2>3, <2>4
<1>4. CASE Audit(h)
  <2>1. /\ call[h].at = "scored" /\ shared' = shared
        /\ \/ Reject(h, call[h].job)
           \/ /\ jobs' = jobs
              /\ \E verdict : call' = [call EXCEPT ![h] =
                   [call[h] EXCEPT !.at = "audited", !.integrity = verdict]]
    BY <1>4 DEF Audit
  <2>2. \A x : [call[h] EXCEPT !.at = "audited", !.integrity = x].at = "audited"
    BY CallFacts DEF Calls
  <2>3. CASE Reject(h, call[h].job)
    BY <2>1, <2>3, RejectTouches DEF Stages, Working
  <2>4. CASE ~Reject(h, call[h].job)
    <3>1. PICK c : call' = [call EXCEPT ![h] = c] /\ c.at = "audited"
      BY <2>1, <2>2, <2>4
    <3>2. Advances(h)
      BY <2>1, <3>1, TurnAdvances
    <3>3. QED
      BY <2>1, <2>4, <3>2 DEF Working
  <2>5. QED
    BY <2>3, <2>4
<1>5. CASE List(h)
  BY <1>5, GoesAdvances DEF List, Rank, Stages, Working
<1>6. CASE Settle(h)
  BY <1>6, DoneAdvances, TransitionTouches DEF Settle, Stages, Working
<1>7. QED
  BY <1>1, <1>2, <1>3, <1>4, <1>5, <1>6

LEMMA FailSteps ==
  ASSUME NEW h \in Handlers, TypeOK, Fail(h)
  PROVE  Advances(h) /\ jobs' = jobs
<1>1. call[h].at \in Stages \ {"done"} /\ Escapes(h) /\ jobs' = jobs
  BY CallFacts DEF Fail, Raise, AuditEscapes, AttachEscapes
<1>2. QED
  BY <1>1, DoneAdvances DEF Escapes

LEMMA HandlerSteps ==
  ASSUME Inv, NEW h \in Handlers, Call(h) \/ Continue(h) \/ Fail(h)
  PROVE  /\ Advances(h)
         /\ ~shared' => jobs' = jobs \/ Touches(h, call[h].request)
<1>1. TypeOK /\ Single
  BY DEF Inv
<1>2. CASE MarkRunning(h) \/ NoSeeds(h) \/ Score(h) \/ Audit(h) \/ List(h) \/ Settle(h)
  <2>1. /\ Advances(h) /\ call[h].at \in Working /\ shared' = shared
        /\ jobs' = jobs \/ Touches(h, call[h].job)
    BY <1>1, <1>2, WorkSteps
  <2>2. ~shared => call[h].job = call[h].request
    BY <1>1, <2>1 DEF Single
  <2>3. QED
    BY <2>1, <2>2
<1>3. CASE Fail(h)
  BY <1>1, <1>3, FailSteps
<1>4. CASE ~(MarkRunning(h) \/ NoSeeds(h) \/ Score(h) \/ Audit(h) \/ List(h) \/ Settle(h)) /\ ~Fail(h)
  BY <1>1, <1>4, IntakeSteps DEF Continue
<1>5. QED
  BY <1>2, <1>3, <1>4

LEMMA AdvanceMeans ==
  ASSUME TypeOK, NEW h \in Handlers, Advances(h)
  PROVE  /\ \A g \in Handlers : Onward(g)
         /\ call'[h] # call[h]
<1>1. PICK c : call' = [call EXCEPT ![h] = c] /\ Rank[call[h].at] < Rank[c.at]
  BY DEF Advances
<1>2. call'[h] = c /\ \A g \in Handlers : g # h => call'[g] = call[g]
  BY <1>1 DEF TypeOK
<1>3. \A stage \in Stages : Rank[stage] \in Nat
  BY DEF Rank, Stages
<1>4. Rank[call[h].at] \in Nat
  BY <1>3, CallFacts
<1>5. c # call[h]
  BY <1>1, <1>4
<1>6. QED
  BY <1>1, <1>2, <1>5 DEF Onward

(* However handlers interleave, none goes back: a submission is over after *)
(* ten steps of its own (_service.py, submit_hub, submit_local,            *)
(* attach_replay, retract).                                                *)
THEOREM CallsEnd == Spec => CallsOnlyAdvance
<1>1. ASSUME Inv, Next
      PROVE  \A h \in Handlers : Onward(h)
  <2>1. CASE \E h \in Handlers : Call(h) \/ Continue(h) \/ Fail(h)
    BY <1>1, <2>1, HandlerSteps, AdvanceMeans DEF Inv
  <2>2. CASE \E s \in Subjects : ResetWindow(s)
    BY <2>2 DEF ResetWindow, Onward
  <2>3. QED
    BY <1>1, <2>1, <2>2 DEF Next
<1>2. Inv /\ [Next]_vars => [\A h \in Handlers : Onward(h)]_vars
  BY <1>1
<1>3. QED
  BY <1>2, Invariance, PTL DEF Spec, CallsOnlyAdvance

(* As long as no two envelopes meet in the queue, a job moves only by a    *)
(* call that submits what the job is for: one subject's submissions never  *)
(* move another's jobs, nor one artifact's another's (_service.py          *)
(* _evaluate_queued, _transition).                                         *)
THEOREM JobsAreTheirOwn == Spec => JobsAreMovedByTheirOwn
<1> DEFINE Mine == ~shared' => \A j \in Tickets : MovedByItsOwn(j)
<1>1. ASSUME Inv, NEW h \in Handlers, Call(h) \/ Continue(h) \/ Fail(h), ~shared',
             NEW j \in Tickets, jobs'[j] # jobs[j]
      PROVE  call[h].request = j /\ call'[h] # call[h]
  <2>1. Advances(h) /\ Touches(h, call[h].request)
    BY <1>1, HandlerSteps
  <2>2. PICK r : jobs' = [jobs EXCEPT ![call[h].request] = r]
    BY <2>1 DEF Touches
  <2>3. jobs \in [Tickets -> JobRecords]
    BY <1>1 DEF Inv, TypeOK
  <2>4. call[h].request = j
    BY <1>1, <2>2, <2>3
  <2>5. QED
    BY <1>1, <2>1, <2>4, AdvanceMeans DEF Inv
<1>2. ASSUME Inv, Next
      PROVE  Mine
  <2>1. CASE \E h \in Handlers : Call(h) \/ Continue(h) \/ Fail(h)
    BY <1>1, <1>2, <2>1 DEF MovedByItsOwn
  <2>2. CASE \E s \in Subjects : ResetWindow(s)
    BY <2>2 DEF ResetWindow, MovedByItsOwn
  <2>3. QED
    BY <1>2, <2>1, <2>2 DEF Next
<1>3. Inv /\ [Next]_vars => [Mine]_vars
  BY <1>2
<1>4. QED
  BY <1>3, Invariance, PTL DEF Spec, JobsAreMovedByTheirOwn
=============================================================================
