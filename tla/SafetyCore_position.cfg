SPECIFICATION Spec
CONSTANTS
  dock = dock
  charge = charge
  Garbled = Garbled
  NoTarget = NoTarget
  NoCommand = NoCommand
  NoRoot = NoRoot
  Low = 0
  High = 8
  Center = 6
  Radius = 2
  VMax = 3
  Gain = 4
  SafePose = 0
  Start <- Outside
  Setpoints <- TwoSteps
  Modes = {"velocity", "position"}
  FallbackMode = "position"
  Directives = {dock}
  Configured = {dock}
  Authored = {charge}
  Margins <- ThreeMargins
  Window = 2
  Horizon = 1
  BoundFallback = "safe_state"
  ClauseFallback = "hold"
  Sensors = {"seen"}
  Malformed = FALSE
  MayOverrun = TRUE
  HasSignals = TRUE
  Drift = 1
INVARIANTS StaysOut NoClauseForgotten
PROPERTIES HoldReturns Recovers Retreats
