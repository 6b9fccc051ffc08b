------------------------------ MODULE Registry ------------------------------
(***************************************************************************)
(* The local content registry of src/astro_mine/hub (an OCI layout: blobs  *)
(* under their digests and one index.json), written by publishers          *)
(* (HubClient.publish), by `bench fetch` (fetch_scenario_content), which   *)
(* mirrors pinned artifacts from a remote registry, and by the garbage     *)
(* collector.                                                              *)
(*                                                                         *)
(* A blob is named for what it holds, so blobs are equal when their        *)
(* digests are: the manifest and the config of an artifact, a layer, the   *)
(* referrer manifest of one piece of evidence and its payload, the empty   *)
(* config of all referrers.  The index is a set: an entry that is listed   *)
(* twice is found once.  A file is written in one step, and a process may  *)
(* be killed, or its network fail, between any two.  No lock guards the    *)
(* directory: Overlap says whether the registry calls of two processes     *)
(* may overlap.                                                            *)
(***************************************************************************)
EXTENDS Integers, Sequences

CONSTANTS
  Artifacts,  \* artifacts by content: two of them may claim one name:version
  Tag,        \* per artifact: its name:version
  NoTag,      \* the annotation a referrer's entry lacks
  Layers,     \* per artifact: the sequence of its payload layers
  Evidence,   \* the sequence of attestations that attest attaches and verify requires
  Writers,    \* processes that publish or fetch
  Role,       \* per writer: "publish" or "fetch"
  Task,       \* per writer: the sequence of artifacts it publishes or mirrors
  Accepts,    \* per writer: the artifacts whose signer its trusted key accepts
  Overlap,    \* whether two registry calls may overlap
  MaxAborts   \* bound: kills and network failures in a behaviour

Elements(s) == {s[i] : i \in DOMAIN s}
LayerIds == UNION {Elements(Layers[a]) : a \in Artifacts}
Tags == {Tag[a] : a \in Artifacts}

ASSUME RegistryAssumption ==
  /\ DOMAIN Layers = Artifacts /\ \A a \in Artifacts : Layers[a] \in Seq(LayerIds)
  /\ Evidence \in Seq(Elements(Evidence)) /\ Evidence # <<>>
  /\ Role \in [Writers -> {"publish", "fetch"}]
  /\ \A w \in Writers : Task[w] \in Seq(Artifacts) /\ Task[w] # <<>>
  /\ Accepts \in [Writers -> SUBSET Artifacts]
  /\ NoTag \notin Tags /\ Overlap \in BOOLEAN /\ MaxAborts \in Nat

VARIABLES
  disk,    \* the blobs under blobs/sha256
  index,   \* the entries of index.json
  at,      \* per writer: where it is
  item,    \* per writer: which artifact of its task
  call,    \* per writer: the registry calls for that artifact that have returned
  left,    \* per writer: the blobs its call has still to put
  seen,    \* per writer: the entries its call has read
  gc,      \* the collector: the entries it read, what it reclaims, what it has yet to unlink
  kept,    \* history: the artifacts a command has reported as published or fetched
  aborts

writerVars == <<at, item, call, left, seen>>
vars == <<disk, index, writerVars, gc, kept, aborts>>

-----------------------------------------------------------------------------
(* Blobs, manifests and entries.                                           *)

Blob(kind, of, part) == [kind |-> kind, of |-> of, part |-> part]
Manifest(a) == Blob("manifest", a, "")
Config(a) == Blob("config", a, "")
Layer(l) == Blob("layer", l, "")
Referrer(a, e) == Blob("referrer", a, e)
Payload(a, e) == Blob("evidence", a, e)
Empty == Blob("empty", "", "")

Manifests == {Manifest(a) : a \in Artifacts}
Referrers == {Referrer(a, e) : a \in Artifacts, e \in Elements(Evidence)}
Blobs ==
  Manifests \cup Referrers \cup {Empty} \cup {Config(a) : a \in Artifacts}
  \cup {Layer(l) : l \in LayerIds} \cup {Payload(a, e) : a \in Artifacts, e \in Elements(Evidence)}
Entries == [digest : Manifests \cup Referrers, tag : Tags \cup {NoTag}]

(* The config and the layers a manifest names. *)
Content(m) ==
  IF m.kind = "manifest" THEN {Config(m.of)} \cup {Layer(l) : l \in Elements(Layers[m.of])}
                         ELSE {Empty, Payload(m.of, m.part)}

Needs(m) == {m} \cup Content(m)
Intact(m) == Needs(m) \subseteq disk

(* resolve: what a tag of the index stands for. *)
Bound(tag) == {e.digest : e \in {x \in index : x.tag = tag}}

(* seal.verify over the registry: the artifact is intact, referrers() can   *)
(* read the manifest of every entry of the index, each kind of evidence is  *)
(* attached and intact, and the signer is one the caller trusts.            *)
Sound(a) ==
  /\ Intact(Manifest(a))
  /\ {e.digest : e \in index} \subseteq disk
  /\ \A e \in Elements(Evidence) :
       Referrer(a, e) \in {x.digest : x \in index} /\ Intact(Referrer(a, e))

Current(w) == Task[w][item[w]]
Verifies(w) == Current(w) \in Accepts[w] /\ Sound(Current(w))
Kind(w) == Evidence[call[w]]

(* Faulty variant: a publish that leaves the layers to a later upload. *)
PutsNoLayers(w) ==
  IF call[w] = 0 THEN <<Config(Current(w)), Manifest(Current(w))>>
                 ELSE <<Empty, Payload(Current(w), Kind(w)), Referrer(Current(w), Kind(w))>>

(* The first call of a registry publishes, the others attach: what the call *)
(* puts, in its order, and the entry it adds.                               *)
Puts(w) ==
  IF call[w] = 0
  THEN <<Config(Current(w))>> \o [i \in DOMAIN Layers[Current(w)] |-> Layer(Layers[Current(w)][i])]
       \o <<Manifest(Current(w))>>
  ELSE <<Empty, Payload(Current(w), Kind(w)), Referrer(Current(w), Kind(w))>>

NewEntry(w) ==
  IF call[w] = 0 THEN [digest |-> Manifest(Current(w)), tag |-> Tag[Current(w)]]
                 ELSE [digest |-> Referrer(Current(w), Kind(w)), tag |-> NoTag]

InCall == {"put", "read", "write"}
Alone == \/ Overlap
         \/ gc.at = "idle" /\ \A w \in Writers : at[w] \notin InCall

Init ==
  /\ disk = {} /\ index = {}
  /\ at = [w \in Writers |-> "open"] /\ item = [w \in Writers |-> 1]
  /\ call = [w \in Writers |-> 0] /\ left = [w \in Writers |-> <<>>]
  /\ seen = [w \in Writers |-> {}]
  /\ gc = [at |-> "idle", seen |-> {}, reclaimed |-> {}, victims |-> {}]
  /\ kept = {} /\ aborts = 0

-----------------------------------------------------------------------------
(* Publishing and fetching.                                                *)

Goto(w, place) == at' = [at EXCEPT ![w] = place]

(* Faulty variant: one artifact too many. *)
ReportPast(w) ==
  /\ kept' = kept \cup {Current(w)}
  /\ call' = [call EXCEPT ![w] = 0]
  /\ item' = [item EXCEPT ![w] = @ + 1]
  /\ IF item[w] <= Len(Task[w]) THEN Goto(w, "open") ELSE Goto(w, "done")

(* An artifact is reported, and the command turns to the next of its task. *)
Report(w) ==
  /\ kept' = kept \cup {Current(w)}
  /\ call' = [call EXCEPT ![w] = 0]
  /\ IF item[w] < Len(Task[w])
     THEN item' = [item EXCEPT ![w] = @ + 1] /\ Goto(w, "open")
     ELSE item' = item /\ Goto(w, "done")

(* fetch skips a pin that is there and verifies.  The source is read whole  *)
(* here; when it cannot be, the command aborts.                             *)
Present(w) ==
  /\ at[w] = "open" /\ Role[w] = "fetch" /\ Verifies(w)
  /\ Report(w)
  /\ UNCHANGED <<disk, index, left, seen, gc, aborts>>

Open(w) ==
  /\ at[w] = "open" /\ ~(Role[w] = "fetch" /\ Verifies(w))
  /\ Goto(w, "call") /\ call' = [call EXCEPT ![w] = 0]
  /\ UNCHANGED <<disk, index, item, left, seen, gc, kept, aborts>>

(* Faulty variant: only the very artifact counts as published already. *)
RefusesSame(w) ==
  IF call[w] = 0 THEN Manifest(Current(w)) \in Bound(Tag[Current(w)]) ELSE Manifest(Current(w)) \notin disk

(* publish refuses a name:version that exists, attach a subject that does not. *)
Refuses(w) == IF call[w] = 0 THEN Bound(Tag[Current(w)]) # {} ELSE Manifest(Current(w)) \notin disk

Begin(w) ==
  /\ at[w] = "call" /\ Alone /\ ~Refuses(w)
  /\ Goto(w, "put") /\ left' = [left EXCEPT ![w] = Puts(w)]
  /\ UNCHANGED <<disk, index, item, call, seen, gc, kept, aborts>>

Refuse(w) ==
  /\ at[w] = "call" /\ Alone /\ Refuses(w)
  /\ Goto(w, "refused")
  /\ UNCHANGED <<disk, index, item, call, left, seen, gc, kept, aborts>>

PutBlob(w) ==
  /\ at[w] = "put"
  /\ disk' = disk \cup {Head(left[w])}
  /\ left' = [left EXCEPT ![w] = Tail(@)]
  /\ IF Len(left[w]) = 1 THEN Goto(w, "read") ELSE UNCHANGED at
  /\ UNCHANGED <<index, item, call, seen, gc, kept, aborts>>

ReadIndex(w) ==
  /\ at[w] = "read"
  /\ Goto(w, "write") /\ seen' = [seen EXCEPT ![w] = index]
  /\ UNCHANGED <<disk, index, item, call, left, gc, kept, aborts>>

(* publish is followed by one attach per kind of evidence, and the last     *)
(* attach by the verification of the whole.                                 *)
WriteIndex(w) ==
  /\ at[w] = "write"
  /\ index' = seen[w] \cup {NewEntry(w)}
  /\ seen' = [seen EXCEPT ![w] = {}]
  /\ IF call[w] < Len(Evidence)
     THEN call' = [call EXCEPT ![w] = @ + 1] /\ Goto(w, "call")
     ELSE call' = call /\ Goto(w, "verify")
  /\ UNCHANGED <<disk, item, left, gc, kept, aborts>>

Verified(w) ==
  /\ at[w] = "verify" /\ Verifies(w)
  /\ Report(w)
  /\ UNCHANGED <<disk, index, left, seen, gc, aborts>>

Unverified(w) ==
  /\ at[w] = "verify" /\ ~Verifies(w)
  /\ Goto(w, "failed")
  /\ UNCHANGED <<disk, index, item, call, left, seen, gc, kept, aborts>>

(* A kill at any point, or the source failing a mirror. *)
Abort(w) ==
  /\ at[w] \in InCall \cup {"open", "call", "verify"} /\ aborts < MaxAborts
  /\ Goto(w, "failed") /\ aborts' = aborts + 1
  /\ left' = [left EXCEPT ![w] = <<>>] /\ seen' = [seen EXCEPT ![w] = {}]
  /\ UNCHANGED <<disk, index, item, call, gc, kept>>

(* The command is run again, from its first artifact. *)
Rerun(w) ==
  /\ at[w] \in {"done", "refused", "failed"}
  /\ Goto(w, "open") /\ item' = [item EXCEPT ![w] = 1] /\ call' = [call EXCEPT ![w] = 0]
  /\ UNCHANGED <<disk, index, left, seen, gc, kept, aborts>>

-----------------------------------------------------------------------------
(* garbage_collect.                                                        *)

Roots(entries) == {e.digest : e \in {x \in entries : x.tag # NoTag}}

(* Faulty variant: the collector forgets the referrers. *)
RootsOnly(entries) == UNION {Needs(d) : d \in Roots(entries)}

(* Tagged artifacts and the referrers of what is reachable; no referrer has *)
(* a referrer.                                                              *)
Reachable(entries) ==
  LET live == Roots(entries)
              \cup {d \in {e.digest : e \in entries} : d.kind = "referrer" /\ Manifest(d.of) \in Roots(entries)}
  IN UNION {Needs(d) : d \in live}

Mark ==
  /\ gc.at = "idle" /\ Alone
  /\ {e.digest : e \in index} \subseteq disk
  /\ disk \ Reachable(index) # {}
  /\ gc' = [at |-> "unlink", seen |-> index, reclaimed |-> disk \ Reachable(index),
            victims |-> disk \ Reachable(index)]
  /\ UNCHANGED <<disk, index, writerVars, kept, aborts>>

Unlink ==
  /\ gc.at = "unlink"
  /\ \E b \in gc.victims :
       /\ disk' = disk \ {b}
       /\ gc' = [gc EXCEPT !.victims = @ \ {b}, !.at = IF gc.victims = {b} THEN "write" ELSE "unlink"]
  /\ UNCHANGED <<index, writerVars, kept, aborts>>

Collected == [at |-> "idle", seen |-> {}, reclaimed |-> {}, victims |-> {}]

Sweep ==
  /\ gc.at = "write"
  /\ index' = {e \in gc.seen : e.digest \notin gc.reclaimed}
  /\ gc' = Collected
  /\ UNCHANGED <<disk, writerVars, kept, aborts>>

AbortCollection ==
  /\ gc.at # "idle" /\ aborts < MaxAborts
  /\ gc' = Collected /\ aborts' = aborts + 1
  /\ UNCHANGED <<disk, index, writerVars, kept>>

-----------------------------------------------------------------------------
WriterStep(w) ==
  \/ Present(w) \/ Open(w) \/ Begin(w) \/ Refuse(w) \/ PutBlob(w) \/ ReadIndex(w) \/ WriteIndex(w)
  \/ Verified(w) \/ Unverified(w) \/ Abort(w) \/ Rerun(w)

Next ==
  \/ \E w \in Writers : WriterStep(w)
  \/ Mark \/ Unlink \/ Sweep \/ AbortCollection

Spec == Init /\ [][Next]_vars

-----------------------------------------------------------------------------
(* Properties.                                                             *)

(* The state keeps its shape, and between calls nothing of a call is left.  *)
TypeOK ==
  /\ disk \subseteq Blobs /\ index \subseteq Entries
  /\ at \in [Writers -> InCall \cup {"open", "call", "verify", "done", "refused", "failed"}]
  /\ \A w \in Writers :
       /\ item[w] \in DOMAIN Task[w] /\ call[w] \in 0..Len(Evidence)
       /\ left[w] \in Seq(Blobs) /\ (left[w] # <<>> <=> at[w] = "put")
       /\ seen[w] \subseteq Entries
  /\ gc.at \in {"idle", "unlink", "write"} /\ gc.seen \subseteq Entries
  /\ gc.victims \subseteq gc.reclaimed /\ gc.reclaimed \subseteq Blobs
  /\ kept \subseteq Artifacts /\ aborts \in 0..MaxAborts

(* Whatever was killed where, and whatever was collected since, each entry  *)
(* of the index finds its manifest and all that its manifest names: a call  *)
(* puts its blobs before its entry (_store.py:147-164), and the collector   *)
(* knows what the layers of two artifacts share (_store.py:273-317).        *)
IndexBacked == \A e \in index : Intact(e.digest)

(* What a command has reported as published or fetched stays published and  *)
(* verifiable, evidence included, so that a later fetch finds it without    *)
(* its source (_fetch.py:238-240).                                          *)
KeptVerifies == \A a \in kept : Sound(a)

(* _store.py:10-22, "Guarantees": to its clients the directory is a         *)
(* catalogue with immutable names, in which nothing whole that is listed is *)
(* ever missing a blob or an entry again.  An artifact is published, and    *)
(* its evidence attached, while the index lists it and all it names is on   *)
(* the disk.                                                                *)
Available == {a \in Artifacts : [digest |-> Manifest(a), tag |-> Tag[a]] \in index /\ Intact(Manifest(a))}
Attested ==
  {p \in Artifacts \X Elements(Evidence) :
     [digest |-> Referrer(p[1], p[2]), tag |-> NoTag] \in index /\ Intact(Referrer(p[1], p[2]))}

Listing == INSTANCE Catalogue WITH
  Kinds <- Elements(Evidence), published <- Available, attested <- Attested

ImplementsCatalogue == Listing!Spec

(* fetch_scenario_content reports a refused publish as "already exists      *)
(* under a different digest than the pinned" (_fetch.py:293-299): another   *)
(* artifact must hold the name.                                             *)
RefusalIsConflict ==
  \A w \in Writers :
    at[w] = "refused" /\ Role[w] = "fetch"
      => \E d \in Bound(Tag[Current(w)]) : d # Manifest(Current(w))
=============================================================================
