---------------------------- MODULE MCExecutive ----------------------------
(* A mission with a horizon, a tier that keeps its plan, and a reactive     *)
(* controller; three agents, two of them claiming one site.                *)
EXTENDS Executive

CONSTANTS north, south

ThreeTiers ==
  <<[role |-> "mission", horizon |-> 2, triggers |-> <<"comms_lost", "plan_expired">>, every |-> 0, fallback |-> TRUE],
    [role |-> "tamp", horizon |-> 0, triggers |-> <<"on_fallback", "periodic">>, every |-> 2, fallback |-> FALSE],
    [role |-> "control", horizon |-> 0, triggers |-> <<>>, every |-> 0, fallback |-> FALSE]>>

Claims ==
  {{<<1, north>>, <<2, south>>},
   {<<1, north>>, <<2, north>>, <<3, south>>},
   {<<1, south>>, <<2, north>>, <<3, south>>},
   {<<1, north>>, <<2, north>>, <<2, south>>}}
=============================================================================
