---------------------------- MODULE MCSafetyCore ----------------------------
(* SafetyCore on a short line. *)
EXTENDS SafetyCore

CONSTANTS dock, charge

Outside == {0, 1, 2, 3, 4, 8}
Around == -2..8
TwoSteps == {-3, 2}
ThreeMargins == {-1, 1, 3}
TwoMargins == {-1, 2}
=============================================================================
