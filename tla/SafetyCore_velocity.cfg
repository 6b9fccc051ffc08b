SPECIFICATION Spec
CONSTANTS
  dock = dock
  charge = charge
  Garbled = Garbled
  NoTarget = NoTarget
  NoCommand = NoCommand
  NoRoot = NoRoot
  Low = 1
  High = 6
  Center = 4
  Radius = 1
  VMax = 2
  Gain = 4
  SafePose = 0
  Start <- Around
  Setpoints <- TwoSteps
  Modes = {"velocity"}
  FallbackMode = "velocity"
  Directives = {dock, charge}
  Configured = {dock, charge}
  Authored = {dock}
  Margins <- TwoMargins
  Window = 1
  Horizon = 1
  BoundFallback = "hold"
  ClauseFallback = "safe_state"
  Sensors = {"seen", "garbled"}
  Malformed = TRUE
  MayOverrun = TRUE
  HasSignals = TRUE
  Drift = 1
INVARIANTS TypeOK AnchorIsEngagement
PROPERTIES NeverDeeper NeverThrough
