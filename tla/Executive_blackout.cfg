SPECIFICATION Spec
CONSTANTS
  north = north
  south = south
  None = None
  Agents = {1, 2, 3}
  Tasks = {north, south}
  Plans <- Claims
  Stack <- ThreeTiers
  Cap = 4
INVARIANTS
  TypeOK
  FreshWhenLit
  PlanOfRegime
  OneWorker
  NoCarryOver
