SPECIFICATION Spec
CONSTANTS
  p = p
  q = q
  Atoms = {p, q}
  Plan <- Clause
  Margins <- TwoMargins
  Infinity = 9
  Horizon = 2
  NoRoot = NoRoot
  MaxTicks = 6
INVARIANTS TypeOK MatchesSemantics
CHECK_DEADLOCK FALSE
