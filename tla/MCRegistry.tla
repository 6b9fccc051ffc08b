----------------------------- MODULE MCRegistry -----------------------------
(* Two pins of a scenario, q and p, that share a layer; r is a local build  *)
(* of q, under the same name:version.                                       *)
EXTENDS Registry, TLC

CONSTANTS p, q, r, l1, l2, f, g

Named == p :> "p:1" @@ q :> "q:1" @@ r :> "q:1"
Payloads == p :> <<l1>> @@ q :> <<l1, l2>> @@ r :> <<l2>>
AllEvidence == <<"signature", "slsa", "sbom">>
FetcherAndPublisher == f :> "fetch" @@ g :> "publish"
PinsAndBuild == f :> <<p, q>> @@ g :> <<r>>
OnePin == f :> <<p>> @@ g :> <<r>>
NotThePin == f :> {p, r} @@ g :> {p, q, r}
AllSigners == f :> {p, q, r} @@ g :> {p, q, r}
=============================================================================
