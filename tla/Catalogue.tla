----------------------------- MODULE Catalogue -----------------------------
(***************************************************************************)
(* What a local content registry of src/astro_mine/hub promises            *)
(* (hub/registry/_store.py, "Guarantees"), whatever files, calls, kills    *)
(* and collections there are:                                              *)
(*   immutable - one artifact, for ever, under a name:version;             *)
(*   referrers - evidence is attached to an artifact that is there, by its *)
(*               digest, and stays attached;                               *)
(*   kept      - what is published or attached is never reclaimed, and     *)
(*               only what has all its evidence is reported.               *)
(* Registry implements it.                                                 *)
(***************************************************************************)
CONSTANTS
  Artifacts,  \* artifacts by content
  Tag,        \* per artifact: its name:version
  Kinds       \* the kinds of evidence

VARIABLES
  published,  \* the artifacts a client can resolve and pull whole
  attested,   \* the evidence of each that a client can read
  kept        \* the artifacts a command has reported

catalogueVars == <<published, attested, kept>>

Init == published = {} /\ attested = {} /\ kept = {}

Publish(a) ==
  /\ \A b \in published : Tag[b] # Tag[a]
  /\ published' = published \cup {a}
  /\ UNCHANGED <<attested, kept>>

Attach(a, e) ==
  /\ a \in published
  /\ attested' = attested \cup {<<a, e>>}
  /\ UNCHANGED <<published, kept>>

Report(a) ==
  /\ a \in published /\ {a} \X Kinds \subseteq attested
  /\ kept' = kept \cup {a}
  /\ UNCHANGED <<published, attested>>

Next ==
  \E a \in Artifacts : Publish(a) \/ Report(a) \/ \E e \in Kinds : Attach(a, e)

Spec == Init /\ [][Next]_catalogueVars
=============================================================================
