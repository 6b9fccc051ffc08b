SPECIFICATION Spec
CONSTANTS
  p = p
  q = q
  Atoms = {p}
  Plan <- Settled
  Margins <- SixMargins
  Infinity = 9
  Horizon = 2
  NoRoot = NoRoot
  MaxTicks = 5
INVARIANTS WarnsBeforeViolation SteadyNeverAlarms
CHECK_DEADLOCK FALSE
