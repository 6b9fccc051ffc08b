------------------------------ MODULE MCMonitor ------------------------------
(* Monitor on small clauses over the atoms p and q. *)
EXTENDS Monitor

CONSTANTS p, q

Pred(a) == [op |-> "predicate", atom |-> a, args |-> <<>>, lo |-> 0, hi |-> 0]
Op(o, args, lo, hi) == [op |-> o, atom |-> p, args |-> args, lo |-> lo, hi |-> hi]

(* p holds for three ticks, or q came to hold within two; and p held since *)
(* q did, with a delay, and q does not hold now.                           *)
Clause ==
  << Pred(p), Op("always", <<1>>, 0, 2),
     Pred(q), Op("eventually", <<3>>, 0, 1),
     Op("or", <<2, 4>>, 0, 0),
     Pred(p), Pred(q), Op("until", <<6, 7>>, 1, 2),
     Pred(q), Op("not", <<9>>, 0, 0),
     Op("and", <<5, 8, 10>>, 0, 0) >>

(* A window over a window. *)
Settled == << Pred(p), Op("eventually", <<1>>, 0, 1), Op("always", <<2>>, 0, 2) >>

TwoMargins == {-1, 1}
SixMargins == -1..4
=============================================================================
