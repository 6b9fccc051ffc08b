----------------------------- MODULE MCCloudRun -----------------------------
(* Two job specs, one that checkpoints and resumes, which share their run   *)
(* address; the retries are cut from three to one.                         *)
EXTENDS CloudRun, TLC

CONSTANTS plain, resumable, pin, h1, h2, s1, s2

OnePin == [j \in Jobs |-> pin]

OneRetry == [j \in Jobs |-> IF j = resumable THEN 1 ELSE 0]

Deployed(present, j1, b1, j2, b2) ==
  [present |-> present, job |-> (h1 :> j1 @@ h2 :> j2), backend |-> (h1 :> b1 @@ h2 :> b2)]

(* One host that submits through the cluster. *)
OneHost == {Deployed({h1}, plain, "cluster", plain, "local")}

(* Two hosts with one job, and one host with two subscribers of its events. *)
TwoHostsOrReaders ==
  {Deployed({h1, h2}, j, "cluster", j, "cluster") : j \in Jobs}
  \cup {Deployed({h1, h2}, resumable, "cluster", j, "local") : j \in Jobs}
  \cup {Deployed({h1, s1, s2}, plain, b, resumable, "local") : b \in {"local", "cluster"}}
=============================================================================
