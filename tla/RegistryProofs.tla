--------------------------- MODULE RegistryProofs ---------------------------
(* Proofs about Registry when registry calls do not overlap: for any        *)
(* artifacts, names, layers, tasks, trusted signers and any number of       *)
(* writers and aborts.                                                      *)
EXTENDS Registry, SequenceTheorems, TLAPS

-----------------------------------------------------------------------------
(* The inductive invariant, one part per idea.                             *)

Places == InCall \cup {"open", "call", "verify", "done", "refused", "failed"}

Types ==
  /\ disk \subseteq Blobs /\ index \subseteq Entries
  /\ at \in [Writers -> Places]
  /\ item \in [Writers -> Nat] /\ \A w \in Writers : item[w] \in 1..Len(Task[w])
  /\ call \in [Writers -> 0..Len(Evidence)]
  /\ left \in [Writers -> Seq(Blobs)]
  /\ \A w \in Writers : left[w] # <<>> <=> at[w] = "put"
  /\ seen \in [Writers -> SUBSET Entries]
  /\ gc \in [at : {"idle", "unlink", "write"}, seen : SUBSET Entries,
             reclaimed : SUBSET Blobs, victims : SUBSET Blobs]
  /\ gc.victims \subseteq gc.reclaimed
  /\ kept \subseteq Artifacts /\ aborts \in 0..MaxAborts

Tagged(a) == [digest |-> Manifest(a), tag |-> Tag[a]]
Attached(a, e) == [digest |-> Referrer(a, e), tag |-> NoTag]

(* The index lists artifacts, and evidence only of artifacts it lists. *)
WellFormed ==
  \A x \in index :
    \/ \E a \in Artifacts : x = Tagged(a)
    \/ \E a \in Artifacts, e \in Elements(Evidence) : x = Attached(a, e) /\ Tagged(a) \in index

(* Evidence is attached to an artifact that is listed. *)
Attaching ==
  \A w \in Writers :
    at[w] \in InCall \cup {"call"} /\ call[w] > 0 => Tagged(Current(w)) \in index

(* A call is alone; what it needs is there or still to be put; what it has  *)
(* read is what is written; and the name it publishes is free.              *)
Exclusive ==
  \A w \in Writers : at[w] \in InCall =>
    gc.at = "idle" /\ \A x \in Writers : at[x] \in InCall => x = w

Staged ==
  \A w \in Writers : at[w] \in InCall =>
    /\ Needs(NewEntry(w).digest) \subseteq disk \cup Elements(left[w])
    /\ call[w] = 0 => Bound(Tag[Current(w)]) = {}
    /\ at[w] = "write" => seen[w] = index

(* The collector reclaims nothing that the index needs. *)
Collecting ==
  gc.at # "idle" =>
    gc.seen = index /\ \A x \in index : gc.reclaimed \cap Needs(x.digest) = {}

KeptListed == \A a \in kept : \A e \in Elements(Evidence) : Attached(a, e) \in index

Inv ==
  /\ Types /\ WellFormed /\ Attaching /\ Exclusive /\ Staged
  /\ Collecting /\ IndexBacked /\ KeptListed

-----------------------------------------------------------------------------
(* Facts about blobs and entries. *)

LEMMA BlobFacts ==
  /\ \A a, b : Manifest(a) = Manifest(b) => a = b
  /\ \A a, b, d, e : Referrer(a, d) = Referrer(b, e) => a = b /\ d = e
  /\ \A a, b, e : Manifest(a) # Referrer(b, e)
  /\ \A a, e : Referrer(a, e).kind = "referrer" /\ Referrer(a, e).of = a
BY DEF Manifest, Referrer, Blob

LEMMA EntryFacts ==
  ASSUME NEW a \in Artifacts, NEW e \in Elements(Evidence)
  PROVE  /\ Tagged(a) \in Entries /\ Attached(a, e) \in Entries
         /\ Tagged(a).tag \in Tags /\ Tagged(a).tag # NoTag /\ Attached(a, e).tag = NoTag
BY RegistryAssumption DEF Tagged, Attached, Entries, Manifests, Referrers, Tags

LEMMA CurrentFacts ==
  ASSUME Types, NEW w \in Writers
  PROVE  /\ Current(w) \in Artifacts
         /\ call[w] \in Nat /\ call[w] <= Len(Evidence)
         /\ call[w] # 0 => Kind(w) \in Elements(Evidence)
<1>1. Task[w] \in Seq(Artifacts) /\ item[w] \in 1..Len(Task[w])
  BY RegistryAssumption DEF Types
<1>2. Current(w) \in Artifacts
  BY <1>1, ElementOfSeq DEF Current
<1>3. Evidence \in Seq(Elements(Evidence)) /\ call[w] \in 0..Len(Evidence) /\ Len(Evidence) \in Nat
  BY RegistryAssumption DEF Types
<1>4. call[w] # 0 => call[w] \in DOMAIN Evidence
  BY <1>3
<1>5. QED
  BY <1>2, <1>3, <1>4 DEF Kind, Elements

LEMMA EntryIsNew ==
  ASSUME Types, NEW w \in Writers
  PROVE  /\ call[w] = 0 => NewEntry(w) = Tagged(Current(w))
         /\ call[w] # 0 => NewEntry(w) = Attached(Current(w), Kind(w))
         /\ NewEntry(w) \in Entries
<1>1. /\ call[w] = 0 => NewEntry(w) = Tagged(Current(w))
      /\ call[w] # 0 => NewEntry(w) = Attached(Current(w), Kind(w))
  BY DEF NewEntry, Tagged, Attached
<1>2. Tagged(Current(w)) \in Entries
  BY CurrentFacts DEF Tagged, Entries, Manifests, Tags
<1>3. call[w] # 0 => Attached(Current(w), Kind(w)) \in Entries
  BY CurrentFacts, EntryFacts
<1>4. QED
  BY <1>1, <1>2, <1>3

(* A call puts all that its entry needs. *)
LEMMA PutsAll ==
  ASSUME Types, NEW w \in Writers
  PROVE  /\ Puts(w) \in Seq(Blobs) /\ Puts(w) # <<>>
         /\ Needs(NewEntry(w).digest) \subseteq Elements(Puts(w))
<1> DEFINE a == Current(w)
           L == Layers[a]
           ls == [i \in DOMAIN L |-> Layer(L[i])]
<1>1. a \in Artifacts
  BY CurrentFacts
<1>2. CASE call[w] = 0
  <2>1. L \in Seq(LayerIds) /\ Len(L) \in Nat /\ DOMAIN L = 1..Len(L)
    BY <1>1, RegistryAssumption
  <2>2. ls \in Seq(Blobs) /\ Len(ls) = Len(L)
    <3>1. \A i \in 1..Len(L) : Layer(L[i]) \in Blobs
      BY <2>1, ElementOfSeq DEF Blobs
    <3>2. ls \in [1..Len(L) -> Blobs]
      BY <2>1, <3>1
    <3>3. QED
      BY <2>1, <3>2, SeqDef
  <2>3. <<Config(a)>> \in Seq(Blobs) /\ <<Manifest(a)>> \in Seq(Blobs)
    BY <1>1 DEF Blobs, Manifests
  <2> HIDE DEF ls
  <2>4. Puts(w) = <<Config(a)>> \o ls \o <<Manifest(a)>>
    BY <1>2 DEF Puts, ls
  <2>5. /\ Puts(w) \in Seq(Blobs) /\ Len(Puts(w)) = Len(L) + 2
        /\ Puts(w)[1] = Config(a) /\ Puts(w)[Len(L) + 2] = Manifest(a)
        /\ \A i \in 1..Len(L) : Puts(w)[i + 1] = ls[i]
    BY <2>1, <2>2, <2>3, <2>4
  <2>6. \A i \in 1..Len(L) + 2 : Puts(w)[i] \in Elements(Puts(w))
    BY <2>5, <2>1 DEF Elements
  <2>7. Config(a) \in Elements(Puts(w)) /\ Manifest(a) \in Elements(Puts(w))
    BY <2>5, <2>6, <2>1
  <2>8. \A l \in Elements(L) : Layer(l) \in Elements(Puts(w))
    <3> SUFFICES ASSUME NEW i \in 1..Len(L) PROVE Layer(L[i]) \in Elements(Puts(w))
      BY <2>1 DEF Elements
    <3>1. ls[i] = Layer(L[i]) /\ i + 1 \in 1..Len(L) + 2
      BY <2>1 DEF ls
    <3>2. QED
      BY <3>1, <2>5, <2>6
  <2>9. NewEntry(w).digest = Manifest(a) /\ Manifest(a).kind = "manifest" /\ Manifest(a).of = a
    BY <1>2 DEF NewEntry, Manifest, Blob
  <2>10. Needs(Manifest(a)) = {Manifest(a)} \cup {Config(a)} \cup {Layer(l) : l \in Elements(L)}
    BY <2>9 DEF Needs, Content
  <2>11. QED
    BY <2>1, <2>5, <2>7, <2>8, <2>9, <2>10
<1>3. CASE call[w] # 0
  <2> DEFINE e == Kind(w)
  <2>1. e \in Elements(Evidence)
    BY <1>3, CurrentFacts
  <2>2. Puts(w) = <<Empty, Payload(a, e), Referrer(a, e)>>
    BY <1>3 DEF Puts
  <2>3. Empty \in Blobs /\ Payload(a, e) \in Blobs /\ Referrer(a, e) \in Blobs
    BY <1>1, <2>1 DEF Blobs, Referrers
  <2> HIDE DEF e
  <2>4. /\ Puts(w) \in Seq(Blobs) /\ Puts(w) # <<>>
        /\ DOMAIN Puts(w) = 1..3
        /\ Puts(w)[1] = Empty /\ Puts(w)[2] = Payload(a, e) /\ Puts(w)[3] = Referrer(a, e)
    BY <2>2, <2>3
  <2>5. {Empty, Payload(a, e), Referrer(a, e)} \subseteq Elements(Puts(w))
    BY <2>4 DEF Elements
  <2>6. NewEntry(w).digest = Referrer(a, e)
    BY <1>3 DEF NewEntry, e
  <2>7. Needs(Referrer(a, e)) = {Referrer(a, e), Empty, Payload(a, e)}
    BY DEF Needs, Content, Referrer, Blob
  <2>8. QED
    BY <2>4, <2>5, <2>6, <2>7
<1>4. QED
  BY <1>2, <1>3

-----------------------------------------------------------------------------
LEMMA InitInv == Init => Inv
<1> SUFFICES ASSUME Init PROVE Inv
  OBVIOUS
<1>1. \A w \in Writers : Task[w] \in Seq(Artifacts) /\ Len(Task[w]) \in Nat /\ 1 \in 1..Len(Task[w])
  BY RegistryAssumption
<1>2. Types
  BY <1>1, RegistryAssumption DEF Init, Types, Places, InCall
<1>3. /\ WellFormed /\ Attaching /\ Exclusive /\ Staged
      /\ Collecting /\ IndexBacked /\ KeptListed
  BY DEF Init, WellFormed, Attaching, Exclusive, Staged, Collecting, IndexBacked, KeptListed, InCall
<1>4. QED
  BY <1>2, <1>3 DEF Inv

-----------------------------------------------------------------------------
(* Steps of a writer outside of its calls: the registry does not change.    *)

OthersStay(w) ==
  \A x \in Writers : x # w =>
    /\ at'[x] = at[x] /\ item'[x] = item[x] /\ call'[x] = call[x]
    /\ left'[x] = left[x] /\ seen'[x] = seen[x]

LEMMA NeedsFacts ==
  ASSUME NEW x, x' = x
  PROVE  Needs(x)' = Needs(x)
BY DEF Needs, Content, Config, Layer, Empty, Payload, Blob

LEMMA CallKept ==
  ASSUME NEW x \in Writers, item'[x] = item[x], call'[x] = call[x]
  PROVE  /\ Current(x)' = Current(x) /\ NewEntry(x)' = NewEntry(x)
         /\ Needs(NewEntry(x).digest)' = Needs(NewEntry(x).digest)
BY DEF Current, NewEntry, Kind, Needs, Content, Manifest, Referrer, Config, Layer, Empty, Payload, Blob

LEMMA Aside ==
  ASSUME Inv, Types', NEW w \in Writers, UNCHANGED <<disk, index, gc>>, OthersStay(w),
         at'[w] \notin InCall, at'[w] = "call" => call'[w] = 0, KeptListed'
  PROVE  Inv'
<1> USE DEF Inv
<1>1. WellFormed'
  BY DEF WellFormed, Tagged, Attached, Manifest, Referrer, Blob
<1>2. Attaching'
  <2> SUFFICES ASSUME NEW x \in Writers, at'[x] \in InCall \cup {"call"}, call'[x] > 0
               PROVE  Tagged(Current(x))' \in index
    BY DEF Attaching
  <2>1. call'[w] \in Nat
    BY RegistryAssumption DEF Types
  <2>2. x # w
    BY <2>1
  <2>3. Tagged(Current(x)) \in index
    BY <2>2 DEF Attaching, OthersStay
  <2>4. Current(x)' = Current(x)
    BY <2>2 DEF Current, OthersStay
  <2>5. QED
    BY <2>3, <2>4 DEF Tagged, Manifest, Blob
<1>3. Exclusive'
  BY DEF Exclusive, OthersStay, InCall
<1>4. Staged'
  <2> SUFFICES ASSUME NEW x \in Writers, at'[x] \in InCall
               PROVE  /\ Needs(NewEntry(x).digest)' \subseteq disk \cup Elements(left'[x])
                      /\ call'[x] = 0 => Bound(Tag[Current(x)])' = {}
                      /\ at'[x] = "write" => seen'[x] = index
    BY DEF Staged, Elements
  <2>1. x # w
    OBVIOUS
  <2>2. /\ at[x] \in InCall /\ at'[x] = at[x] /\ item'[x] = item[x] /\ call'[x] = call[x]
        /\ left'[x] = left[x] /\ seen'[x] = seen[x]
    BY <2>1 DEF OthersStay
  <2>3. /\ Needs(NewEntry(x).digest) \subseteq disk \cup Elements(left[x])
        /\ call[x] = 0 => Bound(Tag[Current(x)]) = {}
        /\ at[x] = "write" => seen[x] = index
    BY <2>2 DEF Staged
  <2>4. Bound(Tag[Current(x)])' = Bound(Tag[Current(x)])
    BY <2>2 DEF Bound, Current
  <2>5. QED
    BY <2>2, <2>3, <2>4, CallKept
<1>5. Collecting'
  BY DEF Collecting, Needs, Content, Config, Layer, Empty, Payload, Blob
<1>6. IndexBacked'
  BY DEF IndexBacked, Intact, Needs, Content, Config, Layer, Empty, Payload, Blob
<1>7. QED
  BY <1>1, <1>2, <1>3, <1>4, <1>5, <1>6

(* What verifies is listed with its evidence. *)
LEMMA SoundIsListed ==
  ASSUME Inv, NEW a \in Artifacts, Sound(a), NEW e \in Elements(Evidence)
  PROVE  Attached(a, e) \in index
<1>1. PICK x \in index : x.digest = Referrer(a, e)
  BY DEF Sound
<1>2. CASE \E b \in Artifacts : x = Tagged(b)
  BY <1>1, <1>2, BlobFacts DEF Tagged
<1>3. CASE \E b \in Artifacts, d \in Elements(Evidence) : x = Attached(b, d)
  BY <1>1, <1>3, BlobFacts DEF Attached
<1>4. QED
  BY <1>2, <1>3 DEF Inv, WellFormed

(* What is listed with its evidence is itself listed. *)
LEMMA EvidenceIsListed ==
  ASSUME Inv, NEW a \in Artifacts, \A e \in Elements(Evidence) : Attached(a, e) \in index
  PROVE  Tagged(a) \in index
<1>1. PICK e \in Elements(Evidence) : TRUE
  <2>1. Evidence \in Seq(Elements(Evidence)) /\ 1 \in DOMAIN Evidence
    BY RegistryAssumption
  <2>2. QED
    BY <2>1 DEF Elements
<1>2. Attached(a, e) \in index
  BY <1>1
<1>3. CASE \E b \in Artifacts : Attached(a, e) = Tagged(b)
  BY <1>3, BlobFacts DEF Tagged, Attached
<1>4. CASE \E b \in Artifacts, d \in Elements(Evidence) : Attached(a, e) = Attached(b, d) /\ Tagged(b) \in index
  BY <1>4, BlobFacts DEF Attached
<1>5. QED
  BY <1>2, <1>3, <1>4 DEF Inv, WellFormed

(* What is listed with its evidence verifies. *)
LEMMA ListedIsSound ==
  ASSUME Inv, NEW a \in Artifacts, \A e \in Elements(Evidence) : Attached(a, e) \in index
  PROVE  Sound(a)
<1>1. Tagged(a) \in index
  BY EvidenceIsListed
<1>2. Intact(Manifest(a))
  BY <1>1 DEF Inv, IndexBacked, Tagged
<1>3. {x.digest : x \in index} \subseteq disk
  BY DEF Inv, IndexBacked, Intact, Needs
<1>4. \A d \in Elements(Evidence) : Referrer(a, d) \in {x.digest : x \in index} /\ Intact(Referrer(a, d))
  <2> SUFFICES ASSUME NEW d \in Elements(Evidence)
               PROVE  Referrer(a, d) \in {x.digest : x \in index} /\ Intact(Referrer(a, d))
    OBVIOUS
  <2>1. Attached(a, d) \in index /\ Attached(a, d).digest = Referrer(a, d)
    BY DEF Attached
  <2>2. QED
    BY <2>1 DEF Inv, IndexBacked
<1>5. QED
  BY <1>2, <1>3, <1>4 DEF Sound

LEMMA KeptStays ==
  ASSUME KeptListed, UNCHANGED <<index, kept>>
  PROVE  KeptListed'
BY DEF KeptListed, Attached, Referrer, Blob

LEMMA ReportInv ==
  ASSUME Inv, NEW w \in Writers, at[w] \in {"open", "verify"}, Sound(Current(w)), Report(w),
         UNCHANGED <<disk, index, left, seen, gc, aborts>>
  PROVE  Inv'
<1> USE DEF Inv
<1>1. Current(w) \in Artifacts /\ item[w] \in 1..Len(Task[w]) /\ Len(Task[w]) \in Nat
  BY CurrentFacts, RegistryAssumption DEF Types
<1>2. /\ at' \in [Writers -> Places] /\ at'[w] \in {"open", "done"}
      /\ item' \in [Writers -> Nat] /\ \A x \in Writers : item'[x] \in 1..Len(Task[x])
      /\ call' \in [Writers -> 0..Len(Evidence)] /\ kept' \subseteq Artifacts
      /\ OthersStay(w) /\ call'[w] = 0
  <2>1. CASE item[w] < Len(Task[w])
    <3>1. /\ kept' = kept \cup {Current(w)} /\ call' = [call EXCEPT ![w] = 0]
          /\ item' = [item EXCEPT ![w] = item[w] + 1] /\ at' = [at EXCEPT ![w] = "open"]
      BY <2>1 DEF Report, Goto
    <3>2. /\ at \in [Writers -> Places] /\ item \in [Writers -> Nat] /\ kept \subseteq Artifacts
          /\ call \in [Writers -> 0..Len(Evidence)] /\ 0 \in 0..Len(Evidence)
          /\ "open" \in Places /\ item[w] + 1 \in 1..Len(Task[w])
          /\ \A x \in Writers : item[x] \in 1..Len(Task[x])
      BY <1>1, <2>1, RegistryAssumption DEF Types, Places
    <3>3. QED
      BY <1>1, <3>1, <3>2 DEF OthersStay
  <2>2. CASE ~(item[w] < Len(Task[w]))
    <3>1. /\ kept' = kept \cup {Current(w)} /\ call' = [call EXCEPT ![w] = 0]
          /\ item' = item /\ at' = [at EXCEPT ![w] = "done"]
      BY <2>2 DEF Report, Goto
    <3>2. /\ at \in [Writers -> Places] /\ item \in [Writers -> Nat] /\ kept \subseteq Artifacts
          /\ call \in [Writers -> 0..Len(Evidence)] /\ 0 \in 0..Len(Evidence)
          /\ "done" \in Places /\ \A x \in Writers : item[x] \in 1..Len(Task[x])
      BY RegistryAssumption DEF Types, Places
    <3>3. QED
      BY <1>1, <3>1, <3>2 DEF OthersStay
  <2>3. QED
    BY <2>1, <2>2
<1>3. left[w] = <<>>
  BY DEF Types
<1>4. \A x \in Writers : left'[x] # <<>> <=> at'[x] = "put"
  BY <1>2, <1>3 DEF Types, OthersStay
<1>5. Types'
  BY <1>2, <1>4 DEF Types
<1>6. KeptListed'
  <2> SUFFICES ASSUME NEW a \in kept', NEW e \in Elements(Evidence)
               PROVE  Attached(a, e) \in index
    BY DEF KeptListed, Attached, Referrer, Blob
  <2>1. a \in kept \/ a = Current(w)
    BY DEF Report
  <2>2. QED
    BY <2>1, <1>1, SoundIsListed DEF KeptListed
<1>7. QED
  BY <1>2, <1>5, <1>6, Aside DEF InCall

LEMMA StopInv ==
  ASSUME Inv, NEW w \in Writers, Open(w) \/ Refuse(w) \/ Unverified(w) \/ Abort(w) \/ Rerun(w)
  PROVE  Inv'
<1> USE DEF Inv
<1>1. \A x \in Writers : Len(Task[x]) \in Nat /\ 1 \in 1..Len(Task[x])
  BY RegistryAssumption
<1>2. 0 \in 0..Len(Evidence) /\ MaxAborts \in Nat
  BY RegistryAssumption
<1>3. \A x \in Writers : left[x] # <<>> <=> at[x] = "put"
  BY DEF Types
<1>4. CASE Open(w)
  <2>1. /\ at' = [at EXCEPT ![w] = "call"] /\ call' = [call EXCEPT ![w] = 0] /\ at[w] = "open"
        /\ UNCHANGED <<disk, index, item, left, seen, gc, kept, aborts>>
    BY <1>4 DEF Open, Goto
  <2>2. at' \in [Writers -> Places] /\ at'[w] = "call" /\ call'[w] = 0
    BY <2>1 DEF Types, Places
  <2>3. Types' /\ OthersStay(w)
    BY <1>2, <1>3, <2>1, <2>2 DEF Types, OthersStay
  <2>4. QED
    BY <2>1, <2>2, <2>3, KeptStays, Aside DEF InCall
<1>5. CASE Refuse(w)
  <2>1. /\ at' = [at EXCEPT ![w] = "refused"] /\ at[w] = "call"
        /\ UNCHANGED <<disk, index, item, call, left, seen, gc, kept, aborts>>
    BY <1>5 DEF Refuse, Goto
  <2>2. at' \in [Writers -> Places] /\ at'[w] = "refused"
    BY <2>1 DEF Types, Places
  <2>3. Types' /\ OthersStay(w)
    BY <1>3, <2>1, <2>2 DEF Types, OthersStay
  <2>4. QED
    BY <2>1, <2>2, <2>3, KeptStays, Aside DEF InCall
<1>6. CASE Unverified(w)
  <2>1. /\ at' = [at EXCEPT ![w] = "failed"] /\ at[w] = "verify"
        /\ UNCHANGED <<disk, index, item, call, left, seen, gc, kept, aborts>>
    BY <1>6 DEF Unverified, Goto
  <2>2. at' \in [Writers -> Places] /\ at'[w] = "failed"
    BY <2>1 DEF Types, Places
  <2>3. Types' /\ OthersStay(w)
    BY <1>3, <2>1, <2>2 DEF Types, OthersStay
  <2>4. QED
    BY <2>1, <2>2, <2>3, KeptStays, Aside DEF InCall
<1>7. CASE Abort(w)
  <2>1. /\ at' = [at EXCEPT ![w] = "failed"] /\ aborts' = aborts + 1 /\ aborts < MaxAborts
        /\ left' = [left EXCEPT ![w] = <<>>] /\ seen' = [seen EXCEPT ![w] = {}]
        /\ UNCHANGED <<disk, index, item, call, gc, kept>>
    BY <1>7 DEF Abort, Goto
  <2>2. /\ at' \in [Writers -> Places] /\ at'[w] = "failed" /\ left' \in [Writers -> Seq(Blobs)]
        /\ seen' \in [Writers -> SUBSET Entries] /\ aborts' \in 0..MaxAborts /\ left'[w] = <<>>
    BY <1>2, <2>1 DEF Types, Places
  <2>3. Types' /\ OthersStay(w)
    BY <1>3, <2>1, <2>2 DEF Types, OthersStay
  <2>4. QED
    BY <2>1, <2>2, <2>3, KeptStays, Aside DEF InCall
<1>8. CASE Rerun(w)
  <2>1. /\ at' = [at EXCEPT ![w] = "open"] /\ at[w] \in {"done", "refused", "failed"}
        /\ item' = [item EXCEPT ![w] = 1] /\ call' = [call EXCEPT ![w] = 0]
        /\ UNCHANGED <<disk, index, left, seen, gc, kept, aborts>>
    BY <1>8 DEF Rerun, Goto
  <2>2. /\ at' \in [Writers -> Places] /\ at'[w] = "open" /\ item' \in [Writers -> Nat]
        /\ \A x \in Writers : item'[x] \in 1..Len(Task[x])
    BY <1>1, <2>1 DEF Types, Places
  <2>3. Types' /\ OthersStay(w)
    BY <1>2, <1>3, <2>1, <2>2 DEF Types, OthersStay
  <2>4. QED
    BY <2>1, <2>2, <2>3, KeptStays, Aside DEF InCall
<1>9. QED
  BY <1>4, <1>5, <1>6, <1>7, <1>8

-----------------------------------------------------------------------------
(* Steps of a call. *)

LEMMA IndexedKept ==
  ASSUME Inv, UNCHANGED index, disk \subseteq disk'
  PROVE  WellFormed' /\ IndexBacked'
<1>1. WellFormed'
  BY DEF Inv, WellFormed, Tagged, Attached, Manifest, Referrer, Blob
<1>2. IndexBacked'
  BY DEF Inv, IndexBacked, Intact, Needs, Content, Config, Layer, Empty, Payload, Blob
<1>3. QED
  BY <1>1, <1>2

LEMMA AttachingKept ==
  ASSUME Inv, NEW w \in Writers, UNCHANGED <<item, call>>, index \subseteq index', OthersStay(w),
         at[w] \in InCall \cup {"call"}
  PROVE  Attaching'
<1> SUFFICES ASSUME NEW x \in Writers, at'[x] \in InCall \cup {"call"}, call'[x] > 0
             PROVE  Tagged(Current(x))' \in index'
  BY DEF Attaching
<1>1. at[x] \in InCall \cup {"call"} /\ call[x] > 0
  BY DEF OthersStay
<1>2. Tagged(Current(x)) \in index
  BY <1>1 DEF Inv, Attaching
<1>3. Current(x)' = Current(x)
  BY DEF Current
<1>4. QED
  BY <1>2, <1>3 DEF Tagged, Manifest, Blob

LEMMA BeginInv ==
  ASSUME Inv, ~Overlap, NEW w \in Writers, Begin(w)
  PROVE  Inv'
<1> USE DEF Inv
<1>1. /\ at[w] = "call" /\ ~Refuses(w)
      /\ at' = [at EXCEPT ![w] = "put"] /\ left' = [left EXCEPT ![w] = Puts(w)]
      /\ UNCHANGED <<disk, index, item, call, seen, gc, kept, aborts>>
  BY DEF Begin, Goto
<1>2. gc.at = "idle" /\ \A x \in Writers : at[x] \notin InCall
  BY DEF Begin, Alone
<1>3. Puts(w) \in Seq(Blobs) /\ Puts(w) # <<>> /\ Needs(NewEntry(w).digest) \subseteq Elements(Puts(w))
  BY PutsAll
<1>4. at' \in [Writers -> Places] /\ at'[w] = "put" /\ left'[w] = Puts(w)
  BY <1>1 DEF Types, Places, InCall
<1>5. OthersStay(w)
  BY <1>1 DEF OthersStay, Types
<1>6. Types'
  <2>1. \A x \in Writers : left'[x] # <<>> <=> at'[x] = "put"
    BY <1>3, <1>4, <1>5 DEF Types, OthersStay
  <2>2. left' \in [Writers -> Seq(Blobs)]
    BY <1>1, <1>3 DEF Types
  <2>3. QED
    BY <1>1, <1>4, <2>1, <2>2 DEF Types
<1>7. WellFormed' /\ IndexBacked' /\ KeptListed'
  BY <1>1, IndexedKept, KeptStays
<1>8. Attaching'
  BY <1>1, <1>5, AttachingKept
<1>9. Exclusive' /\ Collecting'
  BY <1>1, <1>2, <1>5 DEF Exclusive, Collecting, OthersStay
<1>10. Staged'
  <2> SUFFICES ASSUME NEW x \in Writers, at'[x] \in InCall
               PROVE  /\ Needs(NewEntry(x).digest)' \subseteq disk' \cup Elements(left'[x])
                      /\ call'[x] = 0 => Bound(Tag[Current(x)])' = {}
                      /\ at'[x] = "write" => seen'[x] = index'
    BY DEF Staged, Elements
  <2>1. x = w
    BY <1>2, <1>5 DEF OthersStay
  <2>2. Needs(NewEntry(w).digest)' = Needs(NewEntry(w).digest)
    BY <1>1, CallKept
  <2>3. call[w] = 0 => Bound(Tag[Current(w)]) = {}
    BY <1>1 DEF Refuses
  <2>4. Bound(Tag[Current(w)])' = Bound(Tag[Current(w)])
    BY <1>1 DEF Bound, Current
  <2>5. QED
    BY <1>1, <1>3, <1>4, <2>1, <2>2, <2>3, <2>4
<1>11. QED
  BY <1>6, <1>7, <1>8, <1>9, <1>10

LEMMA HeadAndTail ==
  ASSUME NEW S, NEW s \in Seq(S), s # <<>>
  PROVE  /\ Head(s) \in S /\ Tail(s) \in Seq(S)
         /\ Elements(s) \subseteq {Head(s)} \cup Elements(Tail(s))
         /\ Tail(s) = <<>> <=> Len(s) = 1
<1>1. Len(s) \in Nat \ {0} /\ DOMAIN s = 1..Len(s) /\ Head(s) = s[1] /\ s[1] \in S
  BY ElementOfSeq, EmptySeq
<1>2. Tail(s) \in Seq(S) /\ Len(Tail(s)) = Len(s) - 1 /\ \A i \in 1..Len(s) - 1 : Tail(s)[i] = s[i + 1]
  BY <1>1, HeadTailProperties
<1>3. Elements(s) \subseteq {Head(s)} \cup Elements(Tail(s))
  <2> SUFFICES ASSUME NEW i \in 1..Len(s), i # 1 PROVE s[i] \in Elements(Tail(s))
    BY <1>1 DEF Elements
  <2>1. i - 1 \in 1..Len(s) - 1 /\ Tail(s)[i - 1] = s[i]
    BY <1>1, <1>2
  <2>2. DOMAIN Tail(s) = 1..Len(s) - 1
    BY <1>2, LenProperties
  <2>3. QED
    BY <2>1, <2>2 DEF Elements
<1>4. Tail(s) = <<>> <=> Len(s) = 1
  <2>1. Len(<<>>) = 0
    BY EmptySeq
  <2>2. Tail(s) # <<>> => Len(Tail(s)) \in Nat \ {0}
    BY <1>2, EmptySeq
  <2>3. Tail(s) = <<>> <=> Len(Tail(s)) = 0
    BY <2>1, <2>2
  <2>4. QED
    BY <1>1, <1>2, <2>3
<1>5. QED
  BY <1>1, <1>2, <1>3, <1>4

LEMMA PutBlobInv ==
  ASSUME Inv, NEW w \in Writers, PutBlob(w)
  PROVE  Inv'
<1> USE DEF Inv
<1> DEFINE b == Head(left[w])
<1>1. /\ at[w] = "put" /\ disk' = disk \cup {b} /\ left' = [left EXCEPT ![w] = Tail(left[w])]
      /\ IF Len(left[w]) = 1 THEN at' = [at EXCEPT ![w] = "read"] ELSE at' = at
      /\ UNCHANGED <<index, item, call, seen, gc, kept, aborts>>
  BY DEF PutBlob, Goto
<1>2. left[w] \in Seq(Blobs) /\ left[w] # <<>>
  BY <1>1 DEF Types
<1>3. /\ b \in Blobs /\ Tail(left[w]) \in Seq(Blobs)
      /\ Elements(left[w]) \subseteq {b} \cup Elements(Tail(left[w]))
      /\ Tail(left[w]) = <<>> <=> Len(left[w]) = 1
  BY <1>2, HeadAndTail
<1> HIDE DEF b
<1>4. /\ at' \in [Writers -> Places] /\ at'[w] \in {"put", "read"} /\ left'[w] = Tail(left[w])
      /\ at'[w] = "put" <=> Len(left[w]) # 1
  BY <1>1 DEF Types, Places, InCall
<1>5. OthersStay(w)
  BY <1>1 DEF OthersStay, Types
<1>6. Types'
  <2>1. \A x \in Writers : left'[x] # <<>> <=> at'[x] = "put"
    BY <1>3, <1>4, <1>5 DEF Types, OthersStay
  <2>2. left' \in [Writers -> Seq(Blobs)] /\ disk' \subseteq Blobs
    BY <1>1, <1>3 DEF Types
  <2>3. QED
    BY <1>1, <1>4, <2>1, <2>2 DEF Types
<1>7. WellFormed' /\ IndexBacked' /\ KeptListed'
  BY <1>1, IndexedKept, KeptStays
<1>8. Attaching'
  BY <1>1, <1>5, AttachingKept DEF InCall
<1>9. gc.at = "idle" /\ \A x \in Writers : at[x] \in InCall => x = w
  BY <1>1 DEF Exclusive, InCall
<1>10. Exclusive' /\ Collecting'
  BY <1>1, <1>5, <1>9 DEF Exclusive, Collecting, OthersStay
<1>11. Staged'
  <2> SUFFICES ASSUME NEW x \in Writers, at'[x] \in InCall
               PROVE  /\ Needs(NewEntry(x).digest)' \subseteq disk' \cup Elements(left'[x])
                      /\ call'[x] = 0 => Bound(Tag[Current(x)])' = {}
                      /\ at'[x] = "write" => seen'[x] = index'
    BY DEF Staged, Elements
  <2>1. x = w
    BY <1>5, <1>9 DEF OthersStay
  <2>2. Needs(NewEntry(w).digest)' = Needs(NewEntry(w).digest)
    BY <1>1, CallKept
  <2>3. /\ Needs(NewEntry(w).digest) \subseteq disk \cup Elements(left[w])
        /\ call[w] = 0 => Bound(Tag[Current(w)]) = {}
    BY <1>1 DEF Staged, InCall
  <2>4. Bound(Tag[Current(w)])' = Bound(Tag[Current(w)])
    BY <1>1 DEF Bound, Current
  <2>5. QED
    BY <1>1, <1>3, <1>4, <2>1, <2>2, <2>3, <2>4
<1>12. QED
  BY <1>6, <1>7, <1>8, <1>10, <1>11

LEMMA ReadIndexInv ==
  ASSUME Inv, NEW w \in Writers, ReadIndex(w)
  PROVE  Inv'
<1> USE DEF Inv
<1>1. /\ at[w] = "read" /\ at' = [at EXCEPT ![w] = "write"] /\ seen' = [seen EXCEPT ![w] = index]
      /\ UNCHANGED <<disk, index, item, call, left, gc, kept, aborts>>
  BY DEF ReadIndex, Goto
<1>2. at' \in [Writers -> Places] /\ at'[w] = "write" /\ seen'[w] = index
  BY <1>1 DEF Types, Places, InCall
<1>3. OthersStay(w)
  BY <1>1 DEF OthersStay, Types
<1>4. Types'
  <2>1. \A x \in Writers : left'[x] # <<>> <=> at'[x] = "put"
    BY <1>1, <1>2, <1>3 DEF Types, OthersStay
  <2>2. seen' \in [Writers -> SUBSET Entries]
    BY <1>1 DEF Types
  <2>3. QED
    BY <1>1, <1>2, <2>1, <2>2 DEF Types
<1>5. WellFormed' /\ IndexBacked' /\ KeptListed'
  BY <1>1, IndexedKept, KeptStays
<1>6. Attaching'
  BY <1>1, <1>3, AttachingKept DEF InCall
<1>7. gc.at = "idle" /\ \A x \in Writers : at[x] \in InCall => x = w
  BY <1>1 DEF Exclusive, InCall
<1>8. Exclusive' /\ Collecting'
  BY <1>1, <1>3, <1>7 DEF Exclusive, Collecting, OthersStay
<1>9. Staged'
  <2> SUFFICES ASSUME NEW x \in Writers, at'[x] \in InCall
               PROVE  /\ Needs(NewEntry(x).digest)' \subseteq disk' \cup Elements(left'[x])
                      /\ call'[x] = 0 => Bound(Tag[Current(x)])' = {}
                      /\ at'[x] = "write" => seen'[x] = index'
    BY DEF Staged, Elements
  <2>1. x = w
    BY <1>3, <1>7 DEF OthersStay
  <2>2. Needs(NewEntry(w).digest)' = Needs(NewEntry(w).digest)
    BY <1>1, CallKept
  <2>3. /\ Needs(NewEntry(w).digest) \subseteq disk \cup Elements(left[w])
        /\ call[w] = 0 => Bound(Tag[Current(w)]) = {}
    BY <1>1 DEF Staged, InCall
  <2>4. Bound(Tag[Current(w)])' = Bound(Tag[Current(w)])
    BY <1>1 DEF Bound, Current
  <2>5. QED
    BY <1>1, <1>2, <2>1, <2>2, <2>3, <2>4
<1>10. QED
  BY <1>4, <1>5, <1>6, <1>8, <1>9

(* A write of the index adds one entry: the artifact, under a name that is  *)
(* free, or a piece of evidence of an artifact that is listed.              *)
LEMMA WrittenIndex ==
  ASSUME Inv, NEW w \in Writers, WriteIndex(w)
  PROVE  /\ index' = index \cup {NewEntry(w)}
         /\ call[w] = 0 => NewEntry(w) = Tagged(Current(w)) /\ Bound(Tag[Current(w)]) = {}
         /\ call[w] # 0 => NewEntry(w) = Attached(Current(w), Kind(w)) /\ Tagged(Current(w)) \in index
         /\ Needs(NewEntry(w).digest) \subseteq disk
<1> USE DEF Inv
<1>1. at[w] = "write" /\ index' = seen[w] \cup {NewEntry(w)}
  BY DEF WriteIndex
<1>2. seen[w] = index /\ Needs(NewEntry(w).digest) \subseteq disk \cup Elements(left[w])
  BY <1>1 DEF Staged, InCall
<1>3. Elements(left[w]) = {}
  BY <1>1 DEF Types, Elements
<1>4. call[w] # 0 => Tagged(Current(w)) \in index
  BY <1>1, CurrentFacts DEF Attaching, InCall
<1>5. call[w] = 0 => Bound(Tag[Current(w)]) = {}
  BY <1>1 DEF Staged, InCall
<1>6. QED
  BY <1>1, <1>2, <1>3, <1>4, <1>5, EntryIsNew

LEMMA WriteIndexInv ==
  ASSUME Inv, NEW w \in Writers, WriteIndex(w)
  PROVE  Inv'
<1> USE DEF Inv
<1>1. /\ at[w] = "write" /\ seen' = [seen EXCEPT ![w] = {}]
      /\ IF call[w] < Len(Evidence)
         THEN call' = [call EXCEPT ![w] = call[w] + 1] /\ at' = [at EXCEPT ![w] = "call"]
         ELSE call' = call /\ at' = [at EXCEPT ![w] = "verify"]
      /\ UNCHANGED <<disk, item, left, gc, kept, aborts>>
  BY DEF WriteIndex, Goto
<1>2. /\ index' = index \cup {NewEntry(w)}
      /\ call[w] = 0 => NewEntry(w) = Tagged(Current(w))
      /\ call[w] # 0 => NewEntry(w) = Attached(Current(w), Kind(w)) /\ Tagged(Current(w)) \in index
      /\ Needs(NewEntry(w).digest) \subseteq disk
  BY WrittenIndex
<1>3. Current(w) \in Artifacts /\ call[w] \in Nat /\ (call[w] # 0 => Kind(w) \in Elements(Evidence))
  BY CurrentFacts
<1>4. at' \in [Writers -> Places] /\ at'[w] \in {"call", "verify"} /\ at'[w] \notin InCall
  BY <1>1 DEF Types, Places, InCall
<1>5. OthersStay(w)
  BY <1>1 DEF OthersStay, Types
<1>6. Types'
  <2>1. \A x \in Writers : left'[x] # <<>> <=> at'[x] = "put"
    BY <1>1, <1>4, <1>5 DEF Types, OthersStay
  <2>2. index' \subseteq Entries /\ seen' \in [Writers -> SUBSET Entries]
    BY <1>1, <1>2, EntryIsNew DEF Types
  <2>3. call' \in [Writers -> 0..Len(Evidence)]
    <3>1. Len(Evidence) \in Nat
      BY RegistryAssumption
    <3>2. call \in [Writers -> 0..Len(Evidence)]
      BY DEF Types
    <3>3. CASE call[w] < Len(Evidence)
      <4>1. call[w] + 1 \in 0..Len(Evidence) /\ call' = [call EXCEPT ![w] = call[w] + 1]
        BY <1>1, <1>3, <3>1, <3>3
      <4>2. QED
        BY <3>2, <4>1
    <3>4. CASE ~(call[w] < Len(Evidence))
      BY <1>1, <3>2, <3>4
    <3>5. QED
      BY <3>3, <3>4
  <2>4. QED
    BY <1>1, <1>4, <2>1, <2>2, <2>3 DEF Types
<1>7. WellFormed'
  <2>1. \A x \in index' :
          \/ \E a \in Artifacts : x = Tagged(a)
          \/ \E a \in Artifacts, e \in Elements(Evidence) : x = Attached(a, e) /\ Tagged(a) \in index'
    <3> SUFFICES ASSUME NEW x \in index'
                 PROVE  \/ \E a \in Artifacts : x = Tagged(a)
                        \/ \E a \in Artifacts, e \in Elements(Evidence) : x = Attached(a, e) /\ Tagged(a) \in index'
      OBVIOUS
    <3>1. CASE x \in index
      BY <1>2, <3>1 DEF WellFormed
    <3>2. CASE x = NewEntry(w)
      BY <1>2, <1>3, <3>2
    <3>3. QED
      BY <1>2, <3>1, <3>2
  <2>2. QED
    BY <2>1 DEF WellFormed, Tagged, Attached, Manifest, Referrer, Blob
<1>8. Attaching'
  <2> SUFFICES ASSUME NEW x \in Writers, at'[x] \in InCall \cup {"call"}, call'[x] > 0
               PROVE  Tagged(Current(x))' \in index'
    BY DEF Attaching
  <2>1. Current(x)' = Current(x)
    BY <1>1 DEF Current
  <2>2. Tagged(Current(x)) \in index'
    <3>1. CASE x = w
      BY <1>2, <1>3, <3>1
    <3>2. CASE x # w
      BY <1>2, <1>5, <3>2 DEF Attaching, OthersStay
    <3>3. QED
      BY <3>1, <3>2
  <2>3. QED
    BY <2>1, <2>2 DEF Tagged, Manifest, Blob
<1>9. gc.at = "idle" /\ \A x \in Writers : at[x] \in InCall => x = w
  BY <1>1 DEF Exclusive, InCall
<1>10. \A x \in Writers : at'[x] \notin InCall
  BY <1>4, <1>5, <1>9 DEF OthersStay
<1>11. Exclusive' /\ Staged' /\ Collecting'
  BY <1>1, <1>9, <1>10 DEF Exclusive, Staged, Collecting, InCall
<1>12. IndexBacked'
  <2>1. \A x \in index' : Needs(x.digest) \subseteq disk
    BY <1>2 DEF IndexBacked, Intact
  <2>2. QED
    BY <1>1, <2>1 DEF IndexBacked, Intact, Needs, Content, Config, Layer, Empty, Payload, Blob
<1>13. KeptListed'
  BY <1>1, <1>2 DEF KeptListed, Attached, Referrer, Blob
<1>14. QED
  BY <1>6, <1>7, <1>8, <1>11, <1>12, <1>13

-----------------------------------------------------------------------------
(* The collector. *)

(* Everything an entry needs is reachable. *)
LEMMA IndexIsReachable ==
  ASSUME Inv, NEW x \in index
  PROVE  Needs(x.digest) \subseteq Reachable(index)
<1> DEFINE live == Roots(index)
             \cup {d \in {e.digest : e \in index} : d.kind = "referrer" /\ Manifest(d.of) \in Roots(index)}
<1>1. \A a \in Artifacts : Tagged(a) \in index => Manifest(a) \in Roots(index)
  BY RegistryAssumption DEF Roots, Tagged, Tags
<1>2. x.digest \in live
  <2>1. CASE \E a \in Artifacts : x = Tagged(a)
    BY <1>1, <2>1 DEF Tagged
  <2>2. CASE \E a \in Artifacts, e \in Elements(Evidence) : x = Attached(a, e) /\ Tagged(a) \in index
    BY <1>1, <2>2, BlobFacts DEF Attached
  <2>3. QED
    BY <2>1, <2>2 DEF Inv, WellFormed
<1>3. QED
  BY <1>2 DEF Reachable

LEMMA WritersAside ==
  ASSUME Inv, UNCHANGED <<writerVars, index, kept>>, \A w \in Writers : at[w] \notin InCall
  PROVE  WellFormed' /\ Attaching' /\ Exclusive' /\ Staged' /\ KeptListed'
<1>1. WellFormed' /\ KeptListed'
  BY DEF Inv, WellFormed, KeptListed, Tagged, Attached, Manifest, Referrer, Blob
<1>2. Attaching'
  BY DEF Inv, Attaching, writerVars, InCall, Tagged, Manifest, Blob, Current
<1>3. Exclusive' /\ Staged'
  BY DEF Exclusive, Staged, writerVars, InCall
<1>4. QED
  BY <1>1, <1>2, <1>3

LEMMA MarkInv ==
  ASSUME Inv, ~Overlap, Mark
  PROVE  Inv'
<1> USE DEF Inv
<1> DEFINE garbage == disk \ Reachable(index)
<1>1. /\ gc' = [at |-> "unlink", seen |-> index, reclaimed |-> garbage, victims |-> garbage]
      /\ UNCHANGED <<disk, index, writerVars, kept, aborts>>
  BY DEF Mark
<1>2. \A w \in Writers : at[w] \notin InCall
  BY DEF Mark, Alone
<1>3. garbage \subseteq Blobs
  BY DEF Types
<1>4. \A x \in index : garbage \cap Needs(x.digest) = {}
  BY IndexIsReachable
<1> HIDE DEF garbage
<1>5. Types'
  BY <1>1, <1>3 DEF Types, writerVars
<1>6. Collecting'
  BY <1>1, <1>4 DEF Collecting, Needs, Content, Config, Layer, Empty, Payload, Blob
<1>7. QED
  BY <1>1, <1>2, <1>5, <1>6, WritersAside, IndexedKept

LEMMA UnlinkInv ==
  ASSUME Inv, Unlink
  PROVE  Inv'
<1> USE DEF Inv
<1>1. PICK b \in gc.victims :
        /\ disk' = disk \ {b}
        /\ gc' = [gc EXCEPT !.victims = gc.victims \ {b},
                            !.at = IF gc.victims = {b} THEN "write" ELSE "unlink"]
        /\ gc.at = "unlink" /\ UNCHANGED <<index, writerVars, kept, aborts>>
  BY DEF Unlink
<1>2. \A w \in Writers : at[w] \notin InCall
  BY <1>1 DEF Exclusive
<1>3. /\ gc'.at \in {"unlink", "write"} /\ gc'.seen = gc.seen /\ gc'.reclaimed = gc.reclaimed
      /\ gc'.victims = gc.victims \ {b}
      /\ gc' \in [at : {"idle", "unlink", "write"}, seen : SUBSET Entries,
                  reclaimed : SUBSET Blobs, victims : SUBSET Blobs]
  BY <1>1 DEF Types
<1>4. gc.seen = index /\ \A x \in index : gc.reclaimed \cap Needs(x.digest) = {}
  BY <1>1 DEF Collecting
<1>5. Types'
  BY <1>1, <1>3 DEF Types, writerVars
<1>6. Collecting'
  BY <1>1, <1>3, <1>4 DEF Collecting, Needs, Content, Config, Layer, Empty, Payload, Blob
<1>7. IndexBacked'
  <2>1. b \in gc.reclaimed
    BY DEF Types
  <2>2. \A x \in index : Needs(x.digest) \subseteq disk'
    BY <1>1, <1>4, <2>1 DEF IndexBacked, Intact
  <2>3. QED
    BY <1>1, <2>2 DEF IndexBacked, Intact, Needs, Content, Config, Layer, Empty, Payload, Blob
<1>8. QED
  BY <1>1, <1>2, <1>5, <1>6, <1>7, WritersAside

(* Nothing that the index lists has been reclaimed: the sweep writes the    *)
(* index back as it was.                                                    *)
LEMMA SweptIndex ==
  ASSUME Inv, Sweep
  PROVE  index' = index
<1>1. gc.seen = index /\ \A x \in index : gc.reclaimed \cap Needs(x.digest) = {}
  BY DEF Sweep, Inv, Collecting
<1>2. \A x \in index : x.digest \notin gc.reclaimed
  BY <1>1 DEF Needs
<1>3. QED
  BY <1>1, <1>2 DEF Sweep

LEMMA IdleInv ==
  ASSUME Inv, gc.at # "idle", gc' = Collected, aborts' \in 0..MaxAborts,
         UNCHANGED <<disk, index, writerVars, kept>>
  PROVE  Inv'
<1> USE DEF Inv
<1>1. \A w \in Writers : at[w] \notin InCall
  BY DEF Exclusive
<1>2. Types'
  BY DEF Types, Collected, writerVars
<1>3. Collecting'
  BY DEF Collecting, Collected
<1>4. QED
  BY <1>1, <1>2, <1>3, WritersAside, IndexedKept

LEMMA CollectorInv ==
  ASSUME Inv, ~Overlap, Mark \/ Unlink \/ Sweep \/ AbortCollection
  PROVE  Inv'
<1>1. CASE Sweep
  BY <1>1, SweptIndex, IdleInv DEF Sweep, Inv, Types
<1>2. CASE AbortCollection
  <2>1. aborts' \in 0..MaxAborts
    BY <1>2, RegistryAssumption DEF AbortCollection, Inv, Types
  <2>2. QED
    BY <1>2, <2>1, IdleInv DEF AbortCollection
<1>3. QED
  BY <1>1, <1>2, MarkInv, UnlinkInv

-----------------------------------------------------------------------------
LEMMA StepInv ==
  ASSUME Inv, ~Overlap, [Next]_vars
  PROVE  Inv'
<1>1. CASE \E w \in Writers : WriterStep(w)
  <2> PICK w \in Writers : WriterStep(w)
    BY <1>1
  <2>1. CASE Present(w)
    BY <2>1, ReportInv DEF Present, Verifies
  <2>2. CASE Verified(w)
    BY <2>2, ReportInv DEF Verified, Verifies
  <2>3. CASE Open(w) \/ Refuse(w) \/ Unverified(w) \/ Abort(w) \/ Rerun(w)
    BY <2>3, StopInv
  <2>4. QED
    BY <2>1, <2>2, <2>3, BeginInv, PutBlobInv, ReadIndexInv, WriteIndexInv DEF WriterStep
<1>2. CASE Mark \/ Unlink \/ Sweep \/ AbortCollection
  BY <1>2, CollectorInv
<1>3. CASE UNCHANGED vars
  <2>1. UNCHANGED <<disk, index, at, item, call, left, seen, gc, kept, aborts>>
    BY <1>3 DEF vars, writerVars
  <2>2. Types'
    BY <2>1 DEF Inv, Types
  <2>3. WellFormed' /\ IndexBacked'
    BY <2>1, IndexedKept
  <2>4. KeptListed'
    BY <2>1 DEF Inv, KeptListed, Attached, Referrer, Blob
  <2>5. Attaching' /\ Exclusive'
    BY <2>1 DEF Inv, Attaching, Exclusive, Current, Tagged, Manifest, Blob
  <2>6. Staged'
    <3> SUFFICES ASSUME NEW w \in Writers, at'[w] \in InCall
                 PROVE  /\ Needs(NewEntry(w).digest)' \subseteq disk' \cup Elements(left[w])'
                        /\ (call[w] = 0 => Bound(Tag[Current(w)]) = {})'
                        /\ (at[w] = "write" => seen[w] = index)'
      BY DEF Staged
    <3>1. /\ Needs(NewEntry(w).digest)' = Needs(NewEntry(w).digest)
          /\ Elements(left[w])' = Elements(left[w])
          /\ Bound(Tag[Current(w)])' = Bound(Tag[Current(w)])
      BY <2>1 DEF Needs, Content, NewEntry, Current, Kind, Bound, Elements, Manifest, Referrer,
                  Config, Layer, Empty, Payload, Blob
    <3>2. QED
      BY <2>1, <3>1 DEF Inv, Staged
  <2>7. Collecting'
    BY <2>1 DEF Inv, Collecting, Needs, Content, Config, Layer, Empty, Payload, Blob
  <2>8. QED
    BY <2>2, <2>3, <2>4, <2>5, <2>6, <2>7 DEF Inv
<1>4. QED
  BY <1>1, <1>2, <1>3 DEF Next

LEMMA InvHolds ==
  ASSUME ~Overlap
  PROVE  Spec => []Inv
<1>1. Init => Inv
  BY InitInv
<1>2. Inv /\ [Next]_vars => Inv'
  BY StepInv
<1>3. QED
  BY <1>1, <1>2, PTL DEF Spec

-----------------------------------------------------------------------------
(* The registry keeps the shape of its state (the registry's files, the    *)
(* calls in progress, the collector's list).                               *)
THEOREM TypeCorrect ==
  ASSUME ~Overlap
  PROVE  Spec => []TypeOK
<1>1. Inv => TypeOK
  BY LenProperties DEF Inv, Types, TypeOK, Places
<1>2. QED
  BY <1>1, InvHolds, PTL

(* No kill and no collection leaves an entry of the index without its       *)
(* manifest or without a blob that its manifest names: put_blob comes       *)
(* before write_index, and garbage_collect finds every blob that is shared. *)
(* Registry calls must not overlap.                                         *)
THEOREM IndexIsBacked ==
  ASSUME ~Overlap
  PROVE  Spec => []IndexBacked
<1>1. Inv => IndexBacked
  BY DEF Inv
<1>2. QED
  BY <1>1, InvHolds, PTL

(* What publish or fetch has reported stays verifiable, whoever publishes,  *)
(* mirrors, aborts or collects after it, as long as registry calls do not   *)
(* overlap (_store.py reads the index and writes it back without a lock).   *)
THEOREM ReportedStaysSound ==
  ASSUME ~Overlap
  PROVE  Spec => []KeptVerifies
<1>1. Inv => KeptVerifies
  BY ListedIsSound DEF Inv, KeptListed, KeptVerifies, Types
<1>2. QED
  BY <1>1, InvHolds, PTL

-----------------------------------------------------------------------------
(* The refinement. *)

(* While the index is backed, what is available is what it lists. *)
LEMMA ListedIsAvailable ==
  ASSUME IndexBacked
  PROVE  /\ Available = {a \in Artifacts : Tagged(a) \in index}
         /\ Attested = {p \in Artifacts \X Elements(Evidence) : Attached(p[1], p[2]) \in index}
<1>1. \A a \in Artifacts : Tagged(a) \in index => Intact(Manifest(a))
  BY DEF IndexBacked, Tagged
<1>2. \A a, e : Attached(a, e) \in index => Intact(Referrer(a, e))
  BY DEF IndexBacked, Attached
<1>3. QED
  BY <1>1, <1>2 DEF Available, Attested, Tagged, Attached

LEMMA CatalogueStep ==
  ASSUME Inv, Inv', [Next]_vars
  PROVE  [Listing!Next]_(Listing!catalogueVars)
<1> DEFINE Kinds == Elements(Evidence)
           tagged == {a \in Artifacts : Tagged(a) \in index}
           attached == {p \in Artifacts \X Kinds : Attached(p[1], p[2]) \in index}
<1>1. /\ Available = {a \in Artifacts : Tagged(a) \in index}
      /\ Attested = {p \in Artifacts \X Kinds : Attached(p[1], p[2]) \in index}
  BY ListedIsAvailable DEF Inv
<1>2. /\ Available' = {a \in Artifacts : Tagged(a) \in index'}
      /\ Attested' = {p \in Artifacts \X Kinds : Attached(p[1], p[2]) \in index'}
  <2>1. IndexBacked'
    BY DEF Inv
  <2>2. \A a \in Artifacts : Tagged(a) \in index' => Intact(Manifest(a))'
    BY <2>1 DEF IndexBacked, Tagged, Manifest, Blob
  <2>3. \A a, e : Attached(a, e) \in index' => Intact(Referrer(a, e))'
    BY <2>1 DEF IndexBacked, Attached, Referrer, Blob
  <2>4. QED
    BY <2>2, <2>3 DEF Available, Attested, Tagged, Attached, Elements, Manifest, Referrer, Blob
<1>3. CASE UNCHANGED <<index, kept>>
  BY <1>1, <1>2, <1>3 DEF Listing!catalogueVars
<1>4. ASSUME NEW w \in Writers, WriteIndex(w) PROVE Listing!Next
  <2>1. /\ index' = index \cup {NewEntry(w)} /\ kept' = kept
        /\ at[w] \in InCall /\ Current(w) \in Artifacts
    BY <1>4, WrittenIndex, CurrentFacts DEF Inv, WriteIndex, InCall
  <2>2. CASE call[w] = 0
    <3>1. NewEntry(w) = Tagged(Current(w)) /\ Bound(Tag[Current(w)]) = {}
      BY <2>1, <2>2, EntryIsNew DEF Inv, Staged
    <3>2. \A b \in Available : Tag[b] # Tag[Current(w)]
      BY <1>1, <3>1 DEF Bound, Tagged
    <3>3. Available' = Available \cup {Current(w)}
      BY <1>1, <1>2, <2>1, <3>1, BlobFacts DEF Tagged
    <3>4. Attested' = Attested
      <4>1. \A a, e : Attached(a, e) # Tagged(Current(w))
        BY BlobFacts DEF Attached, Tagged
      <4>2. QED
        BY <1>1, <1>2, <2>1, <3>1, <4>1
    <3>5. QED
      BY <2>1, <3>2, <3>3, <3>4 DEF Listing!Next, Listing!Publish
  <2>3. CASE call[w] # 0
    <3>1. NewEntry(w) = Attached(Current(w), Kind(w)) /\ Kind(w) \in Kinds
      BY <2>3, EntryIsNew, CurrentFacts DEF Inv
    <3>2. Tagged(Current(w)) \in index
      BY <2>1, <2>3, CurrentFacts DEF Inv, Attaching
    <3>3. Available' = Available
      <4>1. \A a : Tagged(a) # Attached(Current(w), Kind(w))
        BY BlobFacts DEF Attached, Tagged
      <4>2. QED
        BY <1>1, <1>2, <2>1, <3>1, <4>1
    <3>4. Attested' = Attested \cup {<<Current(w), Kind(w)>>}
      <4>1. \A p \in Artifacts \X Kinds :
              Attached(p[1], p[2]) = NewEntry(w) <=> p = <<Current(w), Kind(w)>>
        BY <2>1, <3>1, BlobFacts DEF Attached
      <4>2. <<Current(w), Kind(w)>> \in Artifacts \X Kinds
        BY <2>1, <3>1
      <4>3. QED
        BY <1>1, <1>2, <2>1, <4>1, <4>2
    <3>5. QED
      BY <1>1, <2>1, <3>1, <3>2, <3>3, <3>4 DEF Listing!Next, Listing!Attach
  <2>4. QED
    BY <2>2, <2>3
<1>5. ASSUME NEW w \in Writers, Sound(Current(w)), Report(w), index' = index PROVE Listing!Next
  <2>1. Current(w) \in Artifacts /\ kept' = kept \cup {Current(w)}
    BY <1>5, CurrentFacts DEF Inv, Report
  <2>2. \A e \in Kinds : Attached(Current(w), e) \in index
    BY <1>5, <2>1, SoundIsListed
  <2>3. Tagged(Current(w)) \in index
    BY <2>1, <2>2, EvidenceIsListed
  <2>4. Current(w) \in Available /\ {Current(w)} \X Kinds \subseteq Attested
    BY <1>1, <2>1, <2>2, <2>3
  <2>5. UNCHANGED <<Available, Attested>>
    BY <1>1, <1>2, <1>5
  <2>6. QED
    BY <2>1, <2>4, <2>5 DEF Listing!Next, Listing!Report
<1>6. CASE Sweep
  BY <1>3, <1>6, SweptIndex DEF Sweep
<1>7. QED
  <2>1. ASSUME NEW w \in Writers, WriterStep(w) PROVE [Listing!Next]_(Listing!catalogueVars)
    <3>1. CASE Present(w) \/ Verified(w)
      BY <1>5, <3>1 DEF Present, Verified, Verifies
    <3>2. CASE WriteIndex(w)
      BY <1>4, <3>2
    <3>3. CASE Open(w) \/ Begin(w) \/ Refuse(w) \/ PutBlob(w) \/ ReadIndex(w) \/ Unverified(w) \/ Abort(w) \/ Rerun(w)
      BY <1>3, <3>3 DEF Open, Begin, Refuse, PutBlob, ReadIndex, Unverified, Abort, Rerun
    <3>4. QED
      BY <2>1, <3>1, <3>2, <3>3 DEF WriterStep
  <2>2. CASE Mark \/ Unlink \/ AbortCollection \/ UNCHANGED vars
    BY <1>3, <2>2 DEF Mark, Unlink, AbortCollection, vars
  <2>3. QED
    BY <1>6, <2>1, <2>2 DEF Next

(* The files under one directory, with publishers, mirrors and a collector *)
(* killed anywhere and run again, are to their clients the catalogue of    *)
(* _store.py:10-22, as long as registry calls do not overlap.              *)
THEOREM CatalogueIsImplemented ==
  ASSUME ~Overlap
  PROVE  Spec => ImplementsCatalogue
<1>1. Init => Listing!Init
  BY DEF Init, Listing!Init, Available, Attested
<1>2. Inv /\ Inv' /\ [Next]_vars => [Listing!Next]_(Listing!catalogueVars)
  BY CatalogueStep
<1>3. QED
  BY <1>1, <1>2, InvHolds, PTL DEF Spec, ImplementsCatalogue, Listing!Spec
=============================================================================
