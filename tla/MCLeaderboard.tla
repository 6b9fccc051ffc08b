--------------------------- MODULE MCLeaderboard ---------------------------
(* Leaderboard with a policy that may crash and one whose runs differ. *)
EXTENDS Leaderboard, TLC

CONSTANTS lab1, lab2, steady, fickle, h1, h2, h3, low, high

(* Either two labs submit an artifact each, or one lab, whose limit it     *)
(* must wait out in between, submits both and the other is the admin.      *)
TwoLabs == {<<lab1, steady>>, <<lab2, fickle>>}
OneLab == {<<lab1, steady>>, <<lab1, fickle>>}
Outcomes == (steady :> {high, Crash}) @@ (fickle :> {low, high})
=============================================================================
