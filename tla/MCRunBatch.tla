---------------------------- MODULE MCRunBatch ----------------------------
(* RunBatch on a plan of three distinct jobs. *)
EXTENDS RunBatch

CONSTANTS j1, j2, j3

ThreeJobs == <<j1, j2, j3>>
=============================================================================
